---- MODULE Spec2Model ----
(***************************************************************************)
(* Model of the AP2 annual-report pipeline: the orchestrator               *)
(* (orchestrator.py), the downloader (ap2_downloader.py), the parser       *)
(* (pdf_parser_new.py with perfect_llm_parser.py, and the older            *)
(* pdf_parser_enhanced.py) and the settings module (config.py).            *)
(*                                                                         *)
(* Python strings are modelled as sequences of tokens whose concatenation  *)
(* is the string.  Digits, '.', '_', '-', ' ' and '%' are always single    *)
(* tokens; every other token is a block of characters that the code never  *)
(* looks inside.  Equal strings are always written with the same tokens.   *)
(* Python dicts are modelled as sequences of <<key, value>> pairs with     *)
(* distinct keys, in insertion order.                                      *)
(***************************************************************************)
EXTENDS Integers, Sequences, FiniteSets, TLC

VARIABLES
    \* config.py settings read by the run
    TARGET_YEAR, REPORT_TYPES,
    \* config.py : the lists OUTPUT_HEADERS and OUTPUT_SUBHEADERS of the file
    config_headers, config_subheaders,
    \* ap2_downloader.py
    page, all_reports, reports_to_download, dl_i, initial_files, downloaded_file,
    dir_files, downloaded, dl_log, dpc,
    \* pdf_parser_new.py / perfect_llm_parser.py
    pdf_files, perfect_llm, pdf_i, sec_i, attempt, response, llm_calls,
    section_data, current_year_data, previous_year_data, all_data, sheet, ppc,
    \* the extraction strategies parse_annual_report has run on the PDF
    strategies,
    \* orchestrator.py and the two child processes it starts
    opc, child, cpc, success, results, stdout, stderr, exit_status, olog,
    \* the clock, the files of the output folder, the path create_output returns
    now, output_files, output_file,
    \* pdf_parser_enhanced.py : a call of clean_number_string
    value_str, allow_decimal, is_percentage, number, fpc,
    \* ap2_downloader.py : wait_for_download and the browser's download
    browser, elapsed, new_file, size1, size2, wpc,
    \* the browser's download of the report before, while it still goes on
    earlier,
    \* the folders of config.DOWNLOADS_DIR and the one the parser has chosen
    download_folders, latest_folder,
    \* ap2_downloader.py : main's variable driver, the browser setup_driver
    \* started, the way the try statement was left, the way main goes on to
    \* end, the position in the finally clause and the calls made there
    driver, chrome, try_outcome, pending, spc, shutdown

cfgVars == <<TARGET_YEAR, REPORT_TYPES, config_headers, config_subheaders>>
dlVars == <<page, all_reports, reports_to_download, dl_i, initial_files,
            downloaded_file, dir_files, downloaded, dl_log, dpc>>
parserVars == <<pdf_files, perfect_llm, pdf_i, sec_i, attempt, response, llm_calls,
                section_data, current_year_data, previous_year_data, all_data,
                sheet, ppc, strategies>>
orchVars == <<opc, child, cpc, success, results, stdout, stderr, exit_status,
              olog>>
outVars == <<now, output_files, output_file>>
fnVars == <<value_str, allow_decimal, is_percentage, number, fpc>>
waitVars == <<browser, elapsed, new_file, size1, size2, wpc, earlier>>
folderVars == <<download_folders, latest_folder>>
mainVars == <<driver, chrome, try_outcome, pending, spc, shutdown>>
vars == <<cfgVars, dlVars, parserVars, orchVars, outVars, fnVars, waitVars,
          folderVars, mainVars>>

-----------------------------------------------------------------------------
(* Bounds of the model *)

\* longest page (number of h2/div/p elements) the downloader is run on
MaxElems == 3

-----------------------------------------------------------------------------
(* Strings *)

Digits == <<"0", "1", "2", "3", "4", "5", "6", "7", "8", "9">>

IsDigit(c) == \E i \in 1..10 : Digits[i] = c

DigitVal(c) == (CHOOSE i \in 1..10 : Digits[i] = c) - 1

RECURSIVE Str(_)
\* str(n) of a non-negative integer
Str(n) == IF n < 10 THEN <<Digits[n + 1]>> ELSE Str(n \div 10) \o <<Digits[(n % 10) + 1]>>

\* s.startswith(p)
StartsWith(s, p) == Len(s) >= Len(p) /\ SubSeq(s, 1, Len(p)) = p

\* s.endswith(<<t>>) for a one-token suffix
EndsWithTok(s, t) == Len(s) >= 1 /\ s[Len(s)] = t

\* the string a.b.c for the parts <<a, b, c>>
RECURSIVE Dotted(_)
Dotted(parts) ==
    IF Len(parts) <= 1 THEN parts
    ELSE <<parts[1], ".">> \o Dotted(Tail(parts))

\* s.split('.')
RECURSIVE SplitDots(_)
SplitDots(s) ==
    IF \A i \in 1..Len(s) : s[i] # "." THEN <<s>>
    ELSE LET i == CHOOSE j \in 1..Len(s) :
                      s[j] = "." /\ \A k \in 1..(j - 1) : s[k] # "."
         IN  <<SubSeq(s, 1, i - 1)>> \o SplitDots(SubSeq(s, i + 1, Len(s)))

-----------------------------------------------------------------------------
(* Dicts *)

DictKeys(d) == [i \in 1..Len(d) |-> d[i][1]]

DictHas(d, k) == \E i \in 1..Len(d) : d[i][1] = k

DictGet(d, k) == d[CHOOSE i \in 1..Len(d) : d[i][1] = k][2]

\* d[k] = v : an existing key keeps its position
DictSet(d, k, v) ==
    IF DictHas(d, k)
    THEN [i \in 1..Len(d) |-> IF d[i][1] = k THEN <<k, v>> ELSE d[i]]
    ELSE Append(d, <<k, v>>)

\* d.update(e)
RECURSIVE DictUpdate(_, _)
DictUpdate(d, e) ==
    IF e = <<>> THEN d
    ELSE DictUpdate(DictSet(d, e[1][1], e[1][2]), Tail(e))

-----------------------------------------------------------------------------
(* config.py *)

OUTPUT_HEADERS == <<
    <<"Unnamed: 0">>,
    Dotted(<<"AP2", "FUNDCAPITALCARRIEDFORWARD", "LEVEL", "NONE", "A", "1@AP2">>),
    Dotted(<<"AP2", "NETOUTFLOWSTOTHENATIONALPENSIONSYSTEM", "FLOW", "NONE", "A", "1@AP2">>),
    Dotted(<<"AP2", "TOTAL", "FLOW", "NONE", "A", "1@AP2">>),
    Dotted(<<"AP2", "DOMESTICEQUITIES", "ACTUALALLOCATION", "STRATEGICPORTFOLIO", "NONE", "A", "1@AP2">>),
    Dotted(<<"AP2", "DEVELOPEDEQUITIES", "ACTUALALLOCATION", "STRATEGICPORTFOLIO", "NONE", "A", "1@AP2">>),
    Dotted(<<"AP2", "EMERGINGEQUITIES", "ACTUALALLOCATION", "STRATEGICPORTFOLIO", "NONE", "A", "1@AP2">>),
    Dotted(<<"AP2", "DOMESTICEQUITIES", "ACTUALALLOCATION", "NONE", "A", "1@AP2">>),
    Dotted(<<"AP2", "DEVELOPEDEQUITIES", "ACTUALALLOCATION", "NONE", "A", "1@AP2">>),
    Dotted(<<"AP2", "EMEQUITIES", "ACTUALALLOCATION", "NONE", "A", "1@AP2">>),
    Dotted(<<"AP2", "EQUITIES", "ACTUALALLOCATION", "STRATEGICPORTFOLIO", "NONE", "A", "1@AP2">>),
    Dotted(<<"AP2", "PRIVATEEQUITY", "ACTUALALLOCATION", "STRATEGICPORTFOLIO", "NONE", "A", "1@AP2">>),
    Dotted(<<"AP2", "REALASSETS", "ACTUALALLOCATION", "STRATEGICPORTFOLIO", "NONE", "A", "1@AP2">>),
    Dotted(<<"AP2", "FIXEDINCSECURITIES", "ACTUALALLOCATION", "STRATEGICPORTFOLIO", "NONE", "A", "1@AP2">>),
    Dotted(<<"AP2", "GOVBONDSDEVMARKETS", "ACTUALALLOCATION", "STRATEGICPORTFOLIO", "NONE", "A", "1@AP2">>),
    Dotted(<<"AP2", "CREDITBONDSDEVMARKETS", "ACTUALALLOCATION", "STRATEGICPORTFOLIO", "NONE", "A", "1@AP2">>),
    Dotted(<<"AP2", "BONDSEMMARKETS", "ACTUALALLOCATION", "STRATEGICPORTFOLIO", "NONE", "A", "1@AP2">>),
    Dotted(<<"AP2", "NONLISTEDCREDITS", "ACTUALALLOCATION", "STRATEGICPORTFOLIO", "NONE", "A", "1@AP2">>),
    Dotted(<<"AP2", "OTHER", "ACTUALALLOCATION", "STRATEGICPORTFOLIO", "NONE", "A", "1@AP2">>),
    Dotted(<<"AP2", "TOTAL", "ACTUALALLOCATION", "STRATEGICPORTFOLIO", "NONE", "A", "1@AP2">>),
    Dotted(<<"AP2", "CURRENCYEXPOSURE", "ACTUALALLOCATION", "STRATEGICPORTFOLIO", "NONE", "A", "1@AP2">>),
    Dotted(<<"AP2", "EQUITIES", "ACTUALALLOCATION", "NONE", "A", "1@AP2">>),
    Dotted(<<"AP2", "PRIVATEEQUITY", "ACTUALALLOCATION", "NONE", "A", "1@AP2">>),
    Dotted(<<"AP2", "REALASSETS", "ACTUALALLOCATION", "NONE", "A", "1@AP2">>),
    Dotted(<<"AP2", "FIXEDINCSECURITIES", "ACTUALALLOCATION", "NONE", "A", "1@AP2">>),
    Dotted(<<"AP2", "GOVBONDSDEVMARKETS", "ACTUALALLOCATION", "NONE", "A", "1@AP2">>),
    Dotted(<<"AP2", "CREDITBONDSDEVMARKETS", "ACTUALALLOCATION", "NONE", "A", "1@AP2">>),
    Dotted(<<"AP2", "BONDSEMMARKETS", "ACTUALALLOCATION", "NONE", "A", "1@AP2">>),
    Dotted(<<"AP2", "NONLISTEDCREDITS", "ACTUALALLOCATION", "NONE", "A", "1@AP2">>),
    Dotted(<<"AP2", "OTHER", "ACTUALALLOCATION", "NONE", "A", "1@AP2">>),
    Dotted(<<"AP2", "TOTAL", "ACTUALALLOCATION", "NONE", "A", "1@AP2">>),
    Dotted(<<"AP2", "CURRENCYEXPOSURE", "ACTUALALLOCATION", "NONE", "A", "1@AP2">>),
    Dotted(<<"AP2", "SUSTAINABLEINFRASTRUCTURE", "ACTUALALLOCATION", "NONE", "A", "1@AP2">>),
    Dotted(<<"AP2", "TRADITIONALREALESTATE", "ACTUALALLOCATION", "NONE", "A", "1@AP2">>),
    Dotted(<<"AP2", "NATURALCLIMATE", "ACTUALALLOCATION", "NONE", "A", "1@AP2">>),
    Dotted(<<"AP2", "NORTHAMERICA", "ACTUALALLOCATION", "NONE", "A", "1@AP2">>),
    Dotted(<<"AP2", "SOUTHAMERICA", "ACTUALALLOCATION", "NONE", "A", "1@AP2">>),
    Dotted(<<"AP2", "OCEANIA", "ACTUALALLOCATION", "NONE", "A", "1@AP2">>),
    Dotted(<<"AP2", "EUROPE", "ACTUALALLOCATION", "NONE", "A", "1@AP2">>),
    Dotted(<<"AP2", "SWEDEN", "ACTUALALLOCATION", "NONE", "A", "1@AP2">>),
    Dotted(<<"AP2", "ASIA", "ACTUALALLOCATION", "NONE", "A", "1@AP2">>),
    Dotted(<<"AP2", "OTHERS", "ACTUALALLOCATION", "NONE", "A", "1@AP2">>),
    Dotted(<<"AP2", "SWEDISHGOV", "ACTUALALLOCATION", "NONE", "A", "1@AP2">>),
    Dotted(<<"AP2", "SWMUNICIPAL", "ACTUALALLOCATION", "NONE", "A", "1@AP2">>),
    Dotted(<<"AP2", "SWMORTGAGE", "ACTUALALLOCATION", "NONE", "A", "1@AP2">>),
    Dotted(<<"AP2", "FINCOMP", "ACTUALALLOCATION", "NONE", "A", "1@AP2">>),
    Dotted(<<"AP2", "NONFINCOMP", "ACTUALALLOCATION", "NONE", "A", "1@AP2">>),
    Dotted(<<"AP2", "FOREIGNBONDS", "ACTUALALLOCATION", "NONE", "A", "1@AP2">>),
    Dotted(<<"AP2", "FOREIGNBONDSOTHERFORISS", "ACTUALALLOCATION", "NONE", "A", "1@AP2">>),
    Dotted(<<"AP2", "TOTALBONDSISSUERCAT", "ACTUALALLOCATION", "NONE", "A", "1@AP2">>),
    Dotted(<<"AP2", "BONDSOTHER", "ACTUALALLOCATION", "NONE", "A", "1@AP2">>),
    Dotted(<<"AP2", "LOANSUNLISTED", "ACTUALALLOCATION", "NONE", "A", "1@AP2">>),
    Dotted(<<"AP2", "FUNDSFIXEDINCOME", "ACTUALALLOCATION", "NONE", "A", "1@AP2">>),
    Dotted(<<"AP2", "TOTALBONDS", "TYPEINSTR", "ACTUALALLOCATION", "NONE", "A", "1@AP2">>)
>>

\* OUTPUT_SUBHEADERS; "None" stands for None
OUTPUT_SUBHEADERS == <<
    "None",
    "AP2 annual: Fund capital carried forward",
    "AP2 annual: Net outflows to the national pension system",
    "AP2 annual: Net result for the year",
    "AP2 annual: Strategic portfolio - Swedish equities",
    "AP2 annual: Strategic portfolio - Developed markets equities",
    "AP2 annual: Strategic portfolio - Emerging markets equities",
    "AP2 annual: Exposure - Swedish equities",
    "AP2 annual: Exposure - Developed markets equities",
    "AP2 annual: Exposure - Emerging markets equities",
    "AP2 annual: Strategic portfolio - Equities",
    "AP2 annual: Strategic portfolio - Private Equity",
    "AP2 annual: Strategic portfolio - Real assets",
    "AP2 annual: Strategic portfolio - Fixed-income securities",
    "AP2 annual: Strategic portfolio - Government bonds in developed markets",
    "AP2 annual: Strategic portfolio - Credit bonds in developed markets",
    "AP2 annual: Strategic portfolio - Bonds in emerging markets",
    "AP2 annual: Strategic portfolio - Non-listed credits",
    "AP2 annual: Strategic portfolio - Other",
    "AP2 annual: Strategic portfolio - Total",
    "AP2 annual: Strategic portfolio - Currency exposure",
    "AP2 annual: Exposure - Equities",
    "AP2 annual: Alternative investments - Private equity",
    "AP2 annual: Exposure - Real assets",
    "AP2 annual: Exposure - Fixed-income securities",
    "AP2 annual: Exposure - Government bonds in developed markets",
    "AP2 annual: Exposure - Credit bonds in developed markets",
    "AP2 annual: Exposure - Bonds in emerging markets",
    "AP2 annual: Exposure - Non-listed credits",
    "AP2 annual: Exposure - Other",
    "AP2 annual: Exposure - Total",
    "AP2 annual: Exposure - Currency exposure",
    "AP2 annual: Alternative investments - Sustainable infrastructure",
    "AP2 annual: Real Assets, Portfolio distribution - Traditional real estate",
    "AP2 annual: Real Assets, Portfolio distribution - Natural Climate Solutions",
    "AP2 annual: Real Assets, Geographical distribution - North America",
    "AP2 annual: Real Assets, Geographical distribution - South America",
    "AP2 annual: Real Assets, Geographical distribution - Oceania",
    "AP2 annual: Real Assets, Geographical distribution - Europe",
    "AP2 annual: Real Assets, Geographical distribution - Sweden",
    "AP2 annual: Real Assets, Geographical distribution - Asia",
    "AP2 annual: Real Assets, Geographical distribution - Others",
    "AP2 annual: Bonds and other fixed-income securities, Swedish Government",
    "AP2 annual: Bonds and other fixed-income securities, Swedish municipalities",
    "AP2 annual: Bonds and other fixed-income securities, Swedish mortgage institutions",
    "AP2 annual: Bonds and other fixed-income securities, Financial companies",
    "AP2 annual: Bonds and other fixed-income securities, Non-financial companies",
    "AP2 annual: Bonds and other fixed-income securities, Foreign governments",
    "AP2 annual: Bonds and other fixed-income securities, Other foreign issuers",
    "AP2 annual: Bonds and other fixed-income securities, Total (Issuer Category)",
    "AP2 annual: Bonds and other fixed-income securities, Other bonds",
    "AP2 annual: Bonds and other fixed-income securities, Unlisted loans",
    "AP2 annual: Bonds and other fixed-income securities, Participations in foreign fixed-income funds",
    "AP2 annual: Bonds and other fixed-income securities, Total (Instrument Type)"
>>

\* the values TARGET_YEAR may be given: an int, or a str
IntValue(n) == [kind |-> "int", n |-> n, s |-> <<>>]
StrValue(s) == [kind |-> "str", n |-> 0, s |-> s]

\* REPORT_TYPES as shipped
DefaultReportTypes ==
    [t \in {"annual", "half_year", "year_end"} |-> t = "annual"]

\* REPORT_TYPES.get(t, False)
ReportTypeEnabled(types, t) == IF t \in DOMAIN types THEN types[t] ELSE FALSE

\* the two lists as shipped
ShippedLists ==
    /\ config_headers = OUTPUT_HEADERS
    /\ config_subheaders = OUTPUT_SUBHEADERS

-----------------------------------------------------------------------------
(* Numbers in strings *)

\* s.strip() : blanks removed at both ends
RECURSIVE Strip(_)
Strip(s) ==
    IF s = <<>> THEN s
    ELSE IF s[1] = " " THEN Strip(Tail(s))
    ELSE IF s[Len(s)] = " " THEN Strip(SubSeq(s, 1, Len(s) - 1))
    ELSE s

RECURSIVE DigitsValue(_)
\* the number written by digit tokens, underscores skipped
DigitsValue(s) ==
    IF s = <<>> THEN 0
    ELSE IF s[Len(s)] = "_" THEN DigitsValue(SubSeq(s, 1, Len(s) - 1))
    ELSE 10 * DigitsValue(SubSeq(s, 1, Len(s) - 1)) + DigitVal(s[Len(s)])

\* digits, with single underscores between digits only
IsDigitRun(s) ==
    /\ Len(s) >= 1
    /\ \A i \in 1..Len(s) :
          \/ IsDigit(s[i])
          \/ /\ s[i] = "_"
             /\ i > 1 /\ i < Len(s)
             /\ IsDigit(s[i - 1]) /\ IsDigit(s[i + 1])

\* int(s) of a str: [ok |-> FALSE] stands for ValueError
ParseInt(s) ==
    LET t == Strip(s)
        signed == t # <<>> /\ t[1] \in {"-", "+"}
        body == IF signed THEN Tail(t) ELSE t
    IN  IF IsDigitRun(body)
        THEN [ok |-> TRUE,
              n |-> IF signed /\ t[1] = "-" THEN 0 - DigitsValue(body)
                    ELSE DigitsValue(body)]
        ELSE [ok |-> FALSE, n |-> 0]

\* int(v) of a setting
IntOf(v) == IF v.kind = "int" THEN [ok |-> TRUE, n |-> v.n] ELSE ParseInt(v.s)

-----------------------------------------------------------------------------
(* ap2_downloader.py : parse_reports_page *)

\* t.lower() of the tokens link texts are written with
Lower(t) ==
    IF t \in {"Half", "HALF", "half"} THEN "half"
    ELSE IF t \in {"Latest", "LATEST", "latest"} THEN "latest"
    ELSE t

\* 'half' in name.lower()
ContainsHalf(name) == \E i \in 1..Len(name) : Lower(name[i]) = "half"

Report(year, name, url, type) ==
    [year |-> year, name |-> name, url |-> url, type |-> type]

RECURSIVE LinkReports(_, _)
\* the reports appended for the links of one element (lines 110-122)
LinkReports(links, current_year) ==
    IF links = <<>> THEN <<>>
    ELSE LET href == links[1].href
             report_name == Strip(links[1].text)
             report_type == IF ContainsHalf(report_name) THEN "half_year" ELSE "annual"
             rest == LinkReports(Tail(links), current_year)
         IN  IF href # <<>> /\ EndsWithTok(href, ".pdf")
             THEN <<Report(current_year, report_name, href, report_type)>> \o rest
             ELSE rest

RECURSIVE ScanElements(_, _)
\* the loop over content_div.find_all(['h2', 'div', 'p']) (lines 97-122);
\* current_year 0 stands for None: both fail the test "if current_year"
ScanElements(elements, current_year) ==
    IF elements = <<>> THEN <<>>
    ELSE LET e == elements[1]
             heading == e.tag = "h2" /\ e.heading
             parsed == ParseInt(e.text)
         IN  IF heading /\ ~parsed.ok
             THEN ScanElements(Tail(elements), current_year)
             ELSE LET year == IF heading THEN parsed.n ELSE current_year
                  IN  (IF year # 0 THEN LinkReports(e.links, year) ELSE <<>>)
                          \o ScanElements(Tail(elements), year)

RECURSIVE DeduplicateLast(_, _)
\* Deduplicate keeping the last report of each URL instead of the first
DeduplicateLast(reports, seen_urls) ==
    IF reports = <<>> THEN <<>>
    ELSE IF \E i \in 2..Len(reports) : reports[i].url = reports[1].url
    THEN DeduplicateLast(Tail(reports), seen_urls)
    ELSE <<reports[1]>> \o DeduplicateLast(Tail(reports), seen_urls)

RECURSIVE Deduplicate(_, _)
\* the loop that keeps the first report of each URL (lines 124-130)
Deduplicate(reports, seen_urls) ==
    IF reports = <<>> THEN <<>>
    ELSE IF reports[1].url \notin seen_urls
    THEN <<reports[1]>> \o Deduplicate(Tail(reports), seen_urls \cup {reports[1].url})
    ELSE Deduplicate(Tail(reports), seen_urls)

\* the reports found on the page before they are deduplicated
PageReports(elements) == ScanElements(elements, 0)

parse_reports_page(elements) == Deduplicate(PageReports(elements), {})

-----------------------------------------------------------------------------
(* ap2_downloader.py : filter_reports *)

RECURSIVE MaxYear(_)
MaxYear(reports) ==
    IF Len(reports) = 1 THEN reports[1].year
    ELSE LET m == MaxYear(Tail(reports))
         IN  IF reports[1].year > m THEN reports[1].year ELSE m

\* the target year (lines 139-148): ok FALSE stands for the ValueError of
\* int(); none TRUE for 'latest' on an empty page
target_year(setting, reports) ==
    IF setting = StrValue(<<"latest">>)
    THEN IF reports # <<>>
         THEN [ok |-> TRUE, none |-> FALSE, n |-> MaxYear(reports)]
         ELSE [ok |-> TRUE, none |-> TRUE, n |-> 0]
    ELSE [ok |-> IntOf(setting).ok, none |-> FALSE, n |-> IntOf(setting).n]

\* Selected without the test of the report's year
SelectedAnyYear(report, year, types) == ReportTypeEnabled(types, report.type)

\* Selected without the test of the report's type
SelectedAnyType(report, year, types) == report.year = year

\* the test a report must pass to be appended (lines 153-156)
Selected(report, year, types) ==
    report.year = year /\ ReportTypeEnabled(types, report.type)

RECURSIVE FilterLoop(_, _, _)
FilterLoop(reports, year, types) ==
    IF reports = <<>> THEN <<>>
    ELSE (IF Selected(reports[1], year, types) THEN <<reports[1]>> ELSE <<>>)
             \o FilterLoop(Tail(reports), year, types)

\* filter_reports(all_reports), where int() does not raise
filter_reports(reports, setting, types) ==
    LET t == target_year(setting, reports)
    IN  IF t.none THEN <<>> ELSE FilterLoop(reports, t.n, types)

-----------------------------------------------------------------------------
(* ap2_downloader.py : download_reports *)

\* f"AP2_{report['year']}_{report['type']}.pdf" (line 180)
NewName(report) == <<"AP2", "_">> \o Str(report.year) \o <<"_", report.type, ".pdf">>

\* the name the browser saves the file of a URL under: the last part of the
\* URL, or a numbered name when that one is taken
BrowserName(url, files) == IF url \in files THEN <<"(1)">> \o url ELSE url

\* f.endswith((".crdownload", ".tmp", ".part")) (line 50)
IsTemporary(f) ==
    EndsWithTok(f, ".crdownload") \/ EndsWithTok(f, ".tmp") \/ EndsWithTok(f, ".part")

\* the files wait_for_download may return (lines 48-50)
CompleteFiles(files, initial) == {f \in files \ initial : ~IsTemporary(f)}

LogEvent(ev, i, why) == [ev |-> ev, i |-> i, why |-> why]

\* AfterDownloadError leaving the loop at the first error
AfterDownloadErrorBreak(i, n) == n + 1

\* the loop index after the except clause of lines 190-191: the loop goes on
AfterDownloadError(i, n) == i + 1

\* parse_reports_page (line 229)
ParsePage ==
    /\ dpc = "parse"
    /\ all_reports' = parse_reports_page(page)
    /\ dpc' = "filter"
    /\ UNCHANGED <<page, reports_to_download, dl_i, initial_files, downloaded_file,
                   dir_files, downloaded, dl_log>>
    /\ UNCHANGED <<cfgVars, mainVars, folderVars, fnVars, waitVars, outVars, parserVars, orchVars>>

\* filter_reports and the test of its result (lines 230-235)
FilterReports ==
    /\ dpc = "filter"
    /\ IF ~target_year(TARGET_YEAR, all_reports).ok
       THEN /\ dpc' = "raised"
            /\ UNCHANGED reports_to_download
       ELSE /\ reports_to_download' = filter_reports(all_reports, TARGET_YEAR, REPORT_TYPES)
            /\ dpc' = IF reports_to_download' = <<>> THEN "done" ELSE "loop"
    /\ UNCHANGED <<page, all_reports, dl_i, initial_files, downloaded_file,
                   dir_files, downloaded, dl_log>>
    /\ UNCHANGED <<cfgVars, mainVars, folderVars, fnVars, waitVars, outVars, parserVars, orchVars>>

\* the browser's download: its state ("idle", "writing", "done"), the name of
\* the file it writes, the name the complete file gets and the size of the
\* file
NoDownload == [state |-> "idle", name |-> <<>>, final |-> <<>>, size |-> 0]

\* one report of the loop: the directory is listed, the URL requested and
\* wait_for_download entered; a download of the report before that is still
\* going on goes on (the browser keeps it in earlier)
\* (lines 171-176, 44-45); driver.get may raise
DriverGet ==
    /\ dpc = "loop"
    /\ dl_i <= Len(reports_to_download)
    /\ initial_files' = dir_files
    /\ \/ /\ dpc' = "wait"
          /\ dl_log' = Append(dl_log, LogEvent("attempt", dl_i, "none"))
          /\ wpc' = "test" /\ elapsed' = 0
          /\ UNCHANGED dl_i
       \/ /\ dpc' = "loop"
          /\ dl_log' = dl_log \o <<LogEvent("attempt", dl_i, "none"),
                                   LogEvent("failed", dl_i, "get")>>
          /\ dl_i' = AfterDownloadError(dl_i, Len(reports_to_download))
          /\ UNCHANGED <<wpc, elapsed>>
    /\ UNCHANGED <<page, all_reports, reports_to_download, downloaded_file,
                   dir_files, downloaded>>
    /\ browser' = NoDownload
    /\ earlier' = IF browser.state = "writing" THEN browser ELSE earlier
    /\ UNCHANGED <<new_file, size1, size2>>
    /\ UNCHANGED <<cfgVars, mainVars, folderVars, fnVars, outVars, parserVars, orchVars>>

\* wait_for_download returns a new, complete, stable file (lines 47-64)
WaitReturns ==
    /\ dpc = "wait"
    /\ LET f == BrowserName(reports_to_download[dl_i].url, dir_files)
       IN  /\ dir_files' = dir_files \cup {f}
           /\ downloaded_file' \in CompleteFiles(dir_files', initial_files)
    /\ dl_log' = Append(dl_log, LogEvent("downloaded", dl_i, "none"))
    /\ dpc' = "rename"
    /\ UNCHANGED <<page, all_reports, reports_to_download, dl_i, initial_files,
                   downloaded>>
    /\ UNCHANGED <<cfgVars, mainVars, folderVars, fnVars, waitVars, outVars, parserVars, orchVars>>

\* wait_for_download raises TimeoutError (line 68), which the loop catches;
\* the browser has written nothing, or only a partial file
WaitTimesOut ==
    /\ dpc = "wait"
    /\ \/ UNCHANGED dir_files
       \/ dir_files' = dir_files \cup
              {Append(reports_to_download[dl_i].url, ".crdownload")}
    /\ dl_log' = Append(dl_log, LogEvent("failed", dl_i, "timeout"))
    /\ dl_i' = AfterDownloadError(dl_i, Len(reports_to_download))
    /\ dpc' = "loop"
    /\ UNCHANGED <<page, all_reports, reports_to_download, initial_files,
                   downloaded_file, downloaded>>
    /\ UNCHANGED <<cfgVars, mainVars, folderVars, fnVars, waitVars, outVars, parserVars, orchVars>>

\* the file is renamed and its path appended (lines 180-188); os.rename may
\* raise after an older file of the new name was removed
RenameDownloaded ==
    /\ dpc = "rename"
    /\ LET new_path == NewName(reports_to_download[dl_i])
       IN  \/ /\ dir_files' = (dir_files \ {downloaded_file}) \cup {new_path}
              /\ downloaded' = Append(downloaded, new_path)
              /\ dl_i' = dl_i + 1
              /\ UNCHANGED dl_log
           \/ /\ dir_files' \in {dir_files, dir_files \ {new_path}}
              /\ dl_log' = Append(dl_log, LogEvent("failed", dl_i, "rename"))
              /\ dl_i' = AfterDownloadError(dl_i, Len(reports_to_download))
              /\ UNCHANGED downloaded
    /\ dpc' = "loop"
    /\ UNCHANGED <<page, all_reports, reports_to_download, initial_files,
                   downloaded_file>>
    /\ UNCHANGED <<cfgVars, mainVars, folderVars, fnVars, waitVars, outVars, parserVars, orchVars>>

\* the loop is over and download_reports returns (line 193)
DownloadsReturn ==
    /\ dpc = "loop"
    /\ dl_i > Len(reports_to_download)
    /\ dpc' = "done"
    /\ UNCHANGED <<page, all_reports, reports_to_download, dl_i, initial_files,
                   downloaded_file, dir_files, downloaded, dl_log>>
    /\ UNCHANGED <<cfgVars, mainVars, folderVars, fnVars, waitVars, outVars, parserVars, orchVars>>

-----------------------------------------------------------------------------
(* ap2_downloader.py : wait_for_download, step by step, and the browser *)

\* SELENIUM_CONFIG['download_timeout'], in seconds
WaitTimeout == 5

\* the most bytes of a downloaded file
MaxSize == 2

\* the names a browser writes a download under before it is complete: the
\* final name with the suffix of a partial download, the final name itself,
\* or a scratch name of its own, which no other download has
PartialNames(final) ==
    {Append(final, ".crdownload"), final, <<".com.google.Chrome.">> \o final}

\* os.path.getsize(file_path): "OSError" when there is no such file
getsize(f) ==
    IF f \notin dir_files THEN [raises |-> TRUE, size |-> 0]
    ELSE [raises |-> FALSE,
          size |-> IF f = browser.name THEN browser.size
                   ELSE IF f = earlier.name THEN earlier.size
                   ELSE 1]

\* Stable that takes any two sizes
AnySizes(s1, s2) == TRUE

\* the test of line 60
Stable(s1, s2) == s1 = s2 /\ s2 > 0

\* time.sleep(seconds): the clock is read up to the timeout and a little more
Sleep(seconds) == IF elapsed + seconds > WaitTimeout + 1 THEN WaitTimeout + 1
                  ELSE elapsed + seconds

\* the browser starts to write the file of the requested URL
BrowserStarts ==
    /\ dpc = "wait" /\ browser.state = "idle"
    /\ LET final == BrowserName(reports_to_download[dl_i].url, dir_files)
       IN  \E name \in PartialNames(final) :
              /\ name \notin dir_files
              /\ browser' = [state |-> "writing", name |-> name,
                             final |-> final, size |-> 0]
              /\ dir_files' = dir_files \cup {name}
    /\ UNCHANGED <<page, all_reports, reports_to_download, dl_i, initial_files,
                   downloaded_file, downloaded, dl_log, dpc>>
    /\ UNCHANGED <<earlier, elapsed, new_file, size1, size2, wpc>>
    /\ UNCHANGED <<cfgVars, mainVars, folderVars, fnVars, outVars, parserVars, orchVars>>

\* the browser writes more of the file
BrowserWrites ==
    /\ browser.state = "writing" /\ browser.size < MaxSize
    /\ browser' = [browser EXCEPT !.size = @ + 1]
    /\ UNCHANGED <<earlier, elapsed, new_file, size1, size2, wpc>>
    /\ UNCHANGED <<cfgVars, mainVars, folderVars, fnVars, outVars, dlVars, parserVars, orchVars>>

\* the download is complete: the browser gives the file its final name
BrowserFinishes ==
    /\ browser.state = "writing"
    /\ browser.name \in dir_files
    /\ browser' = [browser EXCEPT !.state = "done", !.name = browser.final]
    /\ dir_files' = (dir_files \ {browser.name}) \cup {browser.final}
    /\ UNCHANGED <<page, all_reports, reports_to_download, dl_i, initial_files,
                   downloaded_file, downloaded, dl_log, dpc>>
    /\ UNCHANGED <<earlier, elapsed, new_file, size1, size2, wpc>>
    /\ UNCHANGED <<cfgVars, mainVars, folderVars, fnVars, outVars, parserVars, orchVars>>

\* the browser writes more of the file of the earlier report
EarlierWrites ==
    /\ earlier.state = "writing" /\ earlier.size < MaxSize
    /\ earlier' = [earlier EXCEPT !.size = @ + 1]
    /\ UNCHANGED <<browser, elapsed, new_file, size1, size2, wpc>>
    /\ UNCHANGED <<cfgVars, mainVars, folderVars, fnVars, outVars, dlVars, parserVars, orchVars>>

\* the download of the earlier report is complete: the browser gives the
\* file its final name
EarlierFinishes ==
    /\ earlier.state = "writing"
    /\ earlier.name \in dir_files
    /\ earlier' = [earlier EXCEPT !.state = "done", !.name = earlier.final]
    /\ dir_files' = (dir_files \ {earlier.name}) \cup {earlier.final}
    /\ UNCHANGED <<page, all_reports, reports_to_download, dl_i, initial_files,
                   downloaded_file, downloaded, dl_log, dpc>>
    /\ UNCHANGED <<browser, elapsed, new_file, size1, size2, wpc>>
    /\ UNCHANGED <<cfgVars, mainVars, folderVars, fnVars, outVars, parserVars, orchVars>>

\* the test of the while loop (line 47) and, when the time is up, the
\* TimeoutError of line 68, which the loop of download_reports catches
WaitLoopTest ==
    /\ dpc = "wait" /\ wpc = "test"
    /\ IF elapsed < WaitTimeout
       THEN /\ wpc' = "list"
            /\ UNCHANGED <<dl_i, dl_log, dpc>>
       ELSE /\ wpc' = "TimeoutError"
            /\ dl_log' = Append(dl_log, LogEvent("failed", dl_i, "timeout"))
            /\ dl_i' = AfterDownloadError(dl_i, Len(reports_to_download))
            /\ dpc' = "loop"
    /\ UNCHANGED <<page, all_reports, reports_to_download, initial_files,
                   downloaded_file, dir_files, downloaded>>
    /\ UNCHANGED <<earlier, browser, elapsed, new_file, size1, size2>>
    /\ UNCHANGED <<cfgVars, mainVars, folderVars, fnVars, outVars, parserVars, orchVars>>

\* the directory is listed (lines 48-50); with a complete file the first
\* sleep of the stability check follows (lines 53-57), without one the
\* sleep at the end of the loop (line 66)
WaitList ==
    /\ dpc = "wait" /\ wpc = "list"
    /\ IF CompleteFiles(dir_files, initial_files) # {}
       THEN /\ new_file' \in CompleteFiles(dir_files, initial_files)
            /\ wpc' = "size1"
       ELSE /\ wpc' = "test"
            /\ UNCHANGED new_file
    /\ elapsed' = Sleep(1)
    /\ UNCHANGED <<earlier, browser, size1, size2>>
    /\ UNCHANGED <<cfgVars, mainVars, folderVars, fnVars, outVars, dlVars, parserVars, orchVars>>

\* an OSError of os.path.getsize leaves wait_for_download and is caught by
\* the loop of download_reports (lines 190-191)
GetsizeRaises ==
    /\ wpc' = "OSError"
    /\ dl_log' = Append(dl_log, LogEvent("failed", dl_i, "oserror"))
    /\ dl_i' = AfterDownloadError(dl_i, Len(reports_to_download))
    /\ dpc' = "loop"
    /\ UNCHANGED <<downloaded_file, elapsed, size1, size2>>

\* size1 = os.path.getsize(file_path) and the sleep of two seconds
\* (lines 57-58)
WaitSize1 ==
    /\ dpc = "wait" /\ wpc = "size1"
    /\ IF getsize(new_file).raises
       THEN GetsizeRaises
       ELSE /\ size1' = getsize(new_file).size
            /\ elapsed' = Sleep(2)
            /\ wpc' = "size2"
            /\ UNCHANGED <<dl_i, dl_log, dpc, downloaded_file, size2>>
    /\ UNCHANGED <<page, all_reports, reports_to_download, initial_files,
                   dir_files, downloaded>>
    /\ UNCHANGED <<earlier, browser, new_file>>
    /\ UNCHANGED <<cfgVars, mainVars, folderVars, fnVars, outVars, parserVars, orchVars>>

\* size2 = os.path.getsize(file_path) and the test of the two sizes: the
\* path is returned, or the loop sleeps and goes on (lines 59-66)
WaitSize2 ==
    /\ dpc = "wait" /\ wpc = "size2"
    /\ IF getsize(new_file).raises
       THEN GetsizeRaises
       ELSE /\ size2' = getsize(new_file).size
            /\ IF Stable(size1, size2')
               THEN /\ downloaded_file' = new_file
                    /\ dl_log' = Append(dl_log, LogEvent("downloaded", dl_i, "none"))
                    /\ dpc' = "rename"
                    /\ wpc' = "returned"
                    /\ UNCHANGED elapsed
               ELSE /\ elapsed' = Sleep(1)
                    /\ wpc' = "test"
                    /\ UNCHANGED <<downloaded_file, dl_log, dpc>>
            /\ UNCHANGED <<dl_i, size1>>
    /\ UNCHANGED <<page, all_reports, reports_to_download, initial_files,
                   dir_files, downloaded>>
    /\ UNCHANGED <<earlier, browser, new_file>>
    /\ UNCHANGED <<cfgVars, mainVars, folderVars, fnVars, outVars, parserVars, orchVars>>

-----------------------------------------------------------------------------
(* perfect_llm_parser.py : the LLM's answer and its cleaning *)

\* a number m / 10^d; a float with zero decimals equals the int
RECURSIVE Num(_, _)
Num(m, d) ==
    IF d > 0 /\ m % 10 = 0 THEN Num(m \div 10, d - 1) ELSE [m |-> m, d |-> d]

\* the values of a JSON object's members
RawNum(m, d) == [t |-> "num", m |-> m, d |-> d, s |-> <<>>]
RawStr(s) == [t |-> "str", m |-> 0, d |-> 0, s |-> s]
RawNull == [t |-> "null", m |-> 0, d |-> 0, s |-> <<>>]

\* the pieces of the text the LLM answers with
Brace(b) == [c |-> b]
Text == [c |-> "text"]
Fence == [c |-> "fence"]
ArrayText == [c |-> "[1, 2]"]
Member(k, v) == [c |-> "member", k |-> k, v |-> v]

\* float(s) of a str without exponent: [ok |-> FALSE] stands for ValueError
ParseFloat(s) ==
    LET t == Strip(s)
        signed == t # <<>> /\ t[1] \in {"-", "+"}
        body == IF signed THEN Tail(t) ELSE t
        dots == {i \in 1..Len(body) : body[i] = "."}
        dot == IF dots = {} THEN Len(body) + 1 ELSE CHOOSE i \in dots : TRUE
        whole == SubSeq(body, 1, dot - 1)
        frac == SubSeq(body, dot + 1, Len(body))
        decimals == Cardinality({i \in 1..Len(frac) : IsDigit(frac[i])})
        value == DigitsValue(whole \o frac)
    IN  IF /\ Cardinality(dots) <= 1
           /\ whole = <<>> \/ IsDigitRun(whole)
           /\ frac = <<>> \/ IsDigitRun(frac)
           /\ whole \o frac # <<>>
        THEN [ok |-> TRUE,
              v |-> Num(IF signed /\ t[1] = "-" THEN 0 - value ELSE value, decimals)]
        ELSE [ok |-> FALSE, v |-> Num(0, 0)]

\* the value of one member after lines 332-342: keep FALSE when it is left out
CleanValue(raw) ==
    IF raw.t = "null" \/ (raw.t = "str" /\ raw.s = <<>>)
    THEN [keep |-> FALSE, v |-> Num(0, 0)]
    ELSE IF raw.t = "num" THEN [keep |-> TRUE, v |-> Num(raw.m, raw.d)]
    ELSE IF \E i \in 1..Len(raw.s) : raw.s[i] = "."
    THEN [keep |-> ParseFloat(raw.s).ok, v |-> ParseFloat(raw.s).v]
    ELSE [keep |-> ParseInt(raw.s).ok, v |-> Num(ParseInt(raw.s).n, 0)]

RECURSIVE CleanInto(_, _)
\* the loop of lines 330-342 over result.items()
CleanInto(cleaned_result, items) ==
    IF items = <<>> THEN cleaned_result
    ELSE LET c == CleanValue(items[1][2])
         IN  CleanInto(IF c.keep THEN DictSet(cleaned_result, items[1][1], c.v)
                       ELSE cleaned_result,
                       Tail(items))

cleaned_result(result) == CleanInto(<<>>, result)

\* the response without its code-fence marks (lines 317-319)
Unfence(content) == SelectSeq(content, LAMBDA x : x # Fence)

\* JsonText without the search for the braces
WholeText(content) == content

\* the text from the first '{' to the last '}' (lines 322-325)
JsonText(content) ==
    LET opens == {i \in 1..Len(content) : content[i] = Brace("{")}
        closes == {i \in 1..Len(content) : content[i] = Brace("}")}
        start_idx == CHOOSE i \in opens : \A k \in opens : i <= k
        end_idx == CHOOSE i \in closes : \A k \in closes : k <= i
    IN  IF opens # {} /\ closes # {} /\ end_idx > start_idx
        THEN SubSeq(content, start_idx, end_idx)
        ELSE content

\* json.loads of the text and the use of .items(): "object" with the dict,
\* "other" for JSON that is no object (AttributeError), "invalid" for
\* JSONDecodeError
JsonLoads(text) ==
    IF /\ Len(text) >= 2
       /\ text[1] = Brace("{") /\ text[Len(text)] = Brace("}")
       /\ \A i \in 2..(Len(text) - 1) : text[i].c = "member"
    THEN [kind |-> "object",
          dict |-> DictUpdate(<<>>, [i \in 1..(Len(text) - 2) |->
                                         <<text[i + 1].k, text[i + 1].v>>])]
    ELSE IF text = <<ArrayText>> THEN [kind |-> "other", dict |-> <<>>]
    ELSE [kind |-> "invalid", dict |-> <<>>]

\* lines 314-327 on the content of a response
ParseResponse(content) == JsonLoads(JsonText(Unfence(content)))

\* PerfectLLMParser.__init__: max_retries
max_retries == 3

\* GivesUp one attempt later
GivesUpLate(att) == att = max_retries

\* the except clauses of lines 346-353: TRUE when the attempt was the last
\* one and {} is returned
GivesUp(att) == att = max_retries - 1

-----------------------------------------------------------------------------
(* perfect_llm_parser.py : extract_all_sections *)

sections == <<"fund_capital", "asset_allocation", "real_assets", "bonds">>

\* datetime.now().year
NowYear == 2026

\* extract_year_from_filename: re.search(r'(20\d{2})', filename), or this year
extract_year_from_filename(name) ==
    LET hits == {i \in 1..(Len(name) - 3) :
                     /\ name[i] = "2" /\ name[i + 1] = "0"
                     /\ IsDigit(name[i + 2]) /\ IsDigit(name[i + 3])}
        i == CHOOSE k \in hits : \A j \in hits : k <= j
    IN  IF hits = {} THEN NowYear
        ELSE DigitsValue(SubSeq(name, i, i + 3))

\* f'{previous_year}_'
YearPrefix(year) == Str(year) \o <<"_">>

RECURSIVE SplitBonds(_, _, _, _)
\* the loop of lines 462-469 over the bonds data: <<current, previous>>
SplitBonds(items, previous_year, cur, prev) ==
    IF items = <<>> THEN <<cur, prev>>
    ELSE LET key == items[1][1]
             value == items[1][2]
         IN  IF StartsWith(key, YearPrefix(previous_year))
             THEN SplitBonds(Tail(items), previous_year, cur,
                             DictSet(prev, SubSeq(key, 6, Len(key)), value))
             ELSE SplitBonds(Tail(items), previous_year,
                             DictSet(cur, key, value), prev)

\* MergeSectionData with the split by year applied to every section
SplitEverySection(section_name, data, previous_year, cur, prev) ==
    SplitBonds(data, previous_year, cur, prev)

\* lines 460-472: <<current_year_data, previous_year_data>> after a section
MergeSectionData(section_name, data, previous_year, cur, prev) ==
    IF section_name = "bonds"
    THEN SplitBonds(data, previous_year, cur, prev)
    ELSE <<DictUpdate(cur, data), prev>>

\* lines 495-501: the years with data, the previous year first
SectionsResult(current_year, cur, prev) ==
    (IF prev # <<>> THEN <<<<current_year - 1, prev>>>> ELSE <<>>)
        \o (IF cur # <<>> THEN <<<<current_year, cur>>>> ELSE <<>>)

-----------------------------------------------------------------------------
(* pdf_parser_new.py : create_output *)

\* an empty cell of the DataFrame (NaN or None)
Null == [null |-> TRUE]

\* no spreadsheet has been written
NoSheet == [header |-> <<>>, subheader |-> <<>>, columns |-> <<>>, rows |-> <<>>]

\* AppendNew without the test: every item of more is appended
AppendAll(q, more) == q \o more

RECURSIVE AppendNew(_, _)
\* the items of more that are not in q, appended to q in their order
AppendNew(q, more) ==
    IF more = <<>> THEN q
    ELSE AppendNew(IF \E i \in 1..Len(q) : q[i] = more[1] THEN q
                   ELSE Append(q, more[1]),
                   Tail(more))

RECURSIVE FrameColumns(_)
\* the columns of DataFrame.from_dict(all_data, orient='index'): the keys of
\* the rows in the order they first appear
FrameColumns(data) ==
    IF data = <<>> THEN <<>>
    ELSE AppendNew(FrameColumns(SubSeq(data, 1, Len(data) - 1)),
                   DictKeys(data[Len(data)][2]))

RECURSIVE FrameIndex(_, _)
\* the index of that DataFrame: the row labels in the order they first appear
\* in the columns
FrameIndex(data, columns) ==
    IF columns = <<>> THEN <<>>
    ELSE LET n == Len(columns)
             having == SelectSeq(data, LAMBDA row : DictHas(row[2], columns[n]))
         IN  AppendNew(FrameIndex(data, SubSeq(columns, 1, n - 1)),
                       DictKeys(having))

\* pd.DataFrame.from_dict(all_data, orient='index') (line 452)
from_dict(data) ==
    LET columns == FrameColumns(data)
        index == FrameIndex(data, columns)
    IN  [columns |-> columns,
         index |-> index,
         rows |-> [r \in 1..Len(index) |->
                      [c \in 1..Len(columns) |->
                          IF DictHas(DictGet(data, index[r]), columns[c])
                          THEN DictGet(DictGet(data, index[r]), columns[c])
                          ELSE Null]]]

\* df.index.name = 'Unnamed: 0'; df.reset_index(inplace=True) (lines 453-454);
\* pandas raises ValueError when the column exists already
ResetIndexRaises(df) == \E c \in 1..Len(df.columns) : df.columns[c] = OUTPUT_HEADERS[1]

reset_index(df) ==
    [columns |-> <<OUTPUT_HEADERS[1]>> \o df.columns,
     index |-> [r \in 1..Len(df.index) |-> r - 1],
     rows |-> [r \in 1..Len(df.index) |-> <<Num(df.index[r], 0)>> \o df.rows[r]]]

\* the loop of lines 457-459: the headers that are no column yet become
\* columns of None, in the order of the headers
AddMissing(df, headers) ==
    LET missing == SelectSeq(headers,
                       LAMBDA h : \A c \in 1..Len(df.columns) : df.columns[c] # h)
    IN  [df EXCEPT !.columns = @ \o missing,
                   !.rows = [r \in 1..Len(df.rows) |->
                                @[r] \o [k \in 1..Len(missing) |-> Null]]]

\* SelectColumns without the selection: the frame is left as it is
KeepColumns(df, headers) == df

\* df = df[config.OUTPUT_HEADERS] (line 460)
SelectColumns(df, headers) ==
    LET at(h) == CHOOSE c \in 1..Len(df.columns) : df.columns[c] = h
    IN  [df EXCEPT !.columns = headers,
                   !.rows = [r \in 1..Len(df.rows) |->
                                [c \in 1..Len(headers) |-> df.rows[r][at(headers[c])]]]]

\* the frame that is written (lines 452-460)
OutputFrame(data) ==
    SelectColumns(AddMissing(reset_index(from_dict(data)), OUTPUT_HEADERS),
                  OUTPUT_HEADERS)

-----------------------------------------------------------------------------
(* pdf_parser_new.py : main, with perfect_llm_parser.py inlined *)

\* current_year of extract_all_sections (line 445)
year_of_pdf == extract_year_from_filename(pdf_files[pdf_i])

\* the answers the LLM gives for a report of a year: no JSON at all, JSON
\* that is no object, and objects in and without surrounding text
Responses(year) ==
    { <<Text>>,
      <<ArrayText>>,
      <<Fence, Brace("{"),
        Member(OUTPUT_HEADERS[4], RawNum(5, 0)),
        Member(OUTPUT_HEADERS[2], RawStr(<<"1", "2", ".", "5", "0">>)),
        Member(OUTPUT_HEADERS[3], RawNull),
        Brace("}"), Fence>>,
      <<Text, Brace("{"),
        Member(OUTPUT_HEADERS[2], RawNum(9, 0)),
        Member(<<"page">>, RawNum(1, 0)),
        Member(OUTPUT_HEADERS[3], RawStr(<<"n/a">>)),
        Brace("}"), Text>>,
      <<Brace("{"),
        Member(YearPrefix(year - 1) \o OUTPUT_HEADERS[51], RawNum(3, 0)),
        Member(OUTPUT_HEADERS[51], RawStr(<<" ", "4", " ">>)),
        Brace("}")>> }

RECURSIVE Orderings(_)
\* the orders glob.glob may list a set of files in
Orderings(files) ==
    IF files = {} THEN {<<>>}
    ELSE UNION {{<<f>> \o q : q \in Orderings(files \ {f})} : f \in files}

\* lines 506-515: the PDF files of the folder are listed and the parser is
\* constructed; PerfectLLMParser() may raise, which leaves perfect_llm None
FindPdfFiles ==
    /\ ppc = "glob"
    /\ IF dir_files = {}
       THEN ppc' = "done" /\ UNCHANGED <<pdf_files, perfect_llm>>
       ELSE /\ pdf_files' \in Orderings(dir_files)
            /\ perfect_llm' \in BOOLEAN
            /\ ppc' = "pdf"
    /\ UNCHANGED <<pdf_i, sec_i, attempt, response, llm_calls, section_data,
                   current_year_data, previous_year_data, all_data, sheet>>
    /\ UNCHANGED <<cfgVars, mainVars, folderVars, fnVars, waitVars, outVars, strategies, dlVars, orchVars>>

\* the next pass of the loop of line 518; without perfect_llm
\* parse_annual_report returns {} (lines 402-404)
StartPdf ==
    /\ ppc = "pdf" /\ pdf_i <= Len(pdf_files)
    /\ IF perfect_llm
       THEN /\ ppc' = "section"
            /\ UNCHANGED <<pdf_i, all_data>>
       ELSE /\ all_data' = DictUpdate(all_data, <<>>)
            /\ pdf_i' = pdf_i + 1
            /\ UNCHANGED ppc
    /\ sec_i' = 1
    /\ strategies' = <<>>
    /\ current_year_data' = <<>> /\ previous_year_data' = <<>>
    /\ UNCHANGED <<pdf_files, perfect_llm, attempt, response, llm_calls,
                   section_data, sheet>>
    /\ UNCHANGED <<cfgVars, mainVars, folderVars, fnVars, waitVars, outVars, dlVars, orchVars>>

\* the section's pages are read and its prompt is made (lines 291-300)
SectionStart ==
    /\ ppc = "section"
    /\ attempt' = 0 /\ llm_calls' = 0
    /\ ppc' = "call"
    /\ UNCHANGED <<pdf_files, perfect_llm, pdf_i, sec_i, response, section_data,
                   current_year_data, previous_year_data, all_data, sheet>>
    /\ UNCHANGED <<cfgVars, mainVars, folderVars, fnVars, waitVars, outVars, strategies, dlVars, orchVars>>

\* the position after section sec_i (lines 455, 483)
AfterSection == IF sec_i < Len(sections) THEN "section" ELSE "return"

\* AfterSectionError when the exception ends the loop over the sections
AfterSectionErrorAbort == "return"

\* the position after the except clause of lines 480-481: the loop goes on
AfterSectionError == AfterSection

\* reading the pages raises (the PDF cannot be opened) before any call of the
\* LLM: the except clause of line 480 logs it and the loop goes on
SectionRaises ==
    /\ ppc = "section"
    /\ llm_calls' = 0
    /\ ppc' = AfterSectionError
    /\ sec_i' = sec_i + 1
    /\ UNCHANGED <<pdf_files, perfect_llm, pdf_i, attempt, response,
                   section_data, current_year_data, previous_year_data,
                   all_data, sheet>>
    /\ UNCHANGED <<cfgVars, mainVars, folderVars, fnVars, waitVars, outVars, strategies, dlVars, orchVars>>

\* one call of client.chat.completions.create that answers (lines 305-314)
LLMCall ==
    /\ ppc = "call"
    /\ llm_calls' = llm_calls + 1
    /\ strategies' = AppendNew(strategies, <<"llm">>)
    /\ response' \in Responses(year_of_pdf)
    /\ ppc' = "parse"
    /\ UNCHANGED <<pdf_files, perfect_llm, pdf_i, sec_i, attempt, section_data,
                   current_year_data, previous_year_data, all_data, sheet>>
    /\ UNCHANGED <<cfgVars, mainVars, folderVars, fnVars, waitVars, outVars, dlVars, orchVars>>

\* a failed attempt: {} is returned after the last one (lines 346-355)
AttemptFailed ==
    IF GivesUp(attempt)
    THEN /\ section_data' = <<>>
         /\ ppc' = "merge"
         /\ UNCHANGED attempt
    ELSE /\ attempt' = attempt + 1
         /\ ppc' = "call"
         /\ UNCHANGED section_data

\* one call that raises (network or API error, lines 350-353)
LLMCallRaises ==
    /\ ppc = "call"
    /\ llm_calls' = llm_calls + 1
    /\ strategies' = AppendNew(strategies, <<"llm">>)
    /\ AttemptFailed
    /\ UNCHANGED <<pdf_files, perfect_llm, pdf_i, sec_i, response,
                   current_year_data, previous_year_data, all_data, sheet>>
    /\ UNCHANGED <<cfgVars, mainVars, folderVars, fnVars, waitVars, outVars, dlVars, orchVars>>

\* the answer is parsed and cleaned (lines 314-353)
HandleResponse ==
    /\ ppc = "parse"
    /\ LET result == ParseResponse(response)
       IN  IF result.kind = "object"
           THEN /\ section_data' = cleaned_result(result.dict)
                /\ ppc' = "merge"
                /\ UNCHANGED attempt
           ELSE AttemptFailed
    /\ response' = <<>>
    /\ UNCHANGED <<pdf_files, perfect_llm, pdf_i, sec_i, llm_calls,
                   current_year_data, previous_year_data, all_data, sheet>>
    /\ UNCHANGED <<cfgVars, mainVars, folderVars, fnVars, waitVars, outVars, strategies, dlVars, orchVars>>

\* the section's data is put with the data of its year (lines 460-472)
MergeSection ==
    /\ ppc = "merge"
    /\ LET merged == MergeSectionData(sections[sec_i], section_data,
                                      year_of_pdf - 1,
                                      current_year_data, previous_year_data)
       IN  /\ current_year_data' = merged[1]
           /\ previous_year_data' = merged[2]
    /\ section_data' = <<>>
    /\ ppc' = AfterSection
    /\ sec_i' = sec_i + 1
    /\ UNCHANGED <<pdf_files, perfect_llm, pdf_i, attempt, response, llm_calls,
                   all_data, sheet>>
    /\ UNCHANGED <<cfgVars, mainVars, folderVars, fnVars, waitVars, outVars, strategies, dlVars, orchVars>>

\* extract_all_sections returns and main updates all_data
\* (perfect_llm_parser.py lines 495-501, pdf_parser_new.py line 521)
FinishPdf ==
    /\ ppc = "return"
    /\ all_data' = DictUpdate(all_data,
                              SectionsResult(year_of_pdf, current_year_data,
                                             previous_year_data))
    /\ pdf_i' = pdf_i + 1
    /\ ppc' = "pdf"
    /\ UNCHANGED <<pdf_files, perfect_llm, sec_i, attempt, response, llm_calls,
                   section_data, current_year_data, previous_year_data, sheet>>
    /\ UNCHANGED <<cfgVars, mainVars, folderVars, fnVars, waitVars, outVars, strategies, dlVars, orchVars>>

\* df.to_excel(header=OUTPUT_SUBHEADERS) raises when the frame has another
\* number of columns than there are subheaders
ToExcelRaises(df) == Len(df.columns) # Len(OUTPUT_SUBHEADERS)

\* the sheet of lines 473-478: row 1 holds the headers, row 2 the
\* subheaders, the rows below the frame; columns names the field each
\* column of the frame holds
WrittenSheet(df) ==
    [header |-> OUTPUT_HEADERS, subheader |-> OUTPUT_SUBHEADERS,
     columns |-> df.columns, rows |-> df.rows]

\* the clock is read in ticks; this many ticks make one second
TicksPerSecond == 2

\* the last tick of the clock that is modelled
MaxClock == 4

\* config.get_timestamp: datetime.now().strftime("%Y%m%d_%H%M%S"), the time
\* cut to whole seconds
get_timestamp(t) == Str(t \div TicksPerSecond)

\* get_run_folders(timestamp)['output'] joined with the file name of
\* create_output (config.py line 299, pdf_parser_new.py lines 468-469)
OutputPath(timestamp) ==
    <<"output", "/">> \o timestamp
        \o <<"/", "AP2_Annual_Financial_Data", "_">> \o timestamp \o <<".xlsx">>

\* get_run_folders(timestamp)['latest_output'] joined with the fixed file
\* name (config.py line 300, pdf_parser_new.py line 470)
LatestPath == <<"output", "/", "latest", "/", "AP2_Annual_Financial_Data", "_", "latest", ".xlsx">>

\* os.makedirs(DOWNLOADS_DIR/timestamp, exist_ok=True) at time t by a
\* process: a folder that is there is left as it is; a new folder is empty,
\* its modification time is t, and no downloader has used it
MakeDir(folders, timestamp, t, process) ==
    IF timestamp \in DOMAIN folders THEN folders
    ELSE [f \in (DOMAIN folders) \cup {timestamp} |->
             IF f = timestamp
             THEN [mtime |-> t, by |-> process, downloader |-> 0, files |-> {}]
             ELSE folders[f]]

\* a file is written: created, or replaced when it exists
WriteFile(files, path, content) ==
    [p \in (DOMAIN files) \cup {path} |-> IF p = path THEN content ELSE files[p]]

\* CopyFile without the copy
CopyNothing(files, src, dst) == files

\* shutil.copy(src, dst) (line 482)
CopyFile(files, src, dst) == WriteFile(files, dst, files[src])

\* lines 525-531: create_output when there is data; the run's timestamp is
\* the reading of the clock at line 463, which has advanced since the last
\* reading
CreateOutput ==
    /\ ppc = "pdf" /\ pdf_i > Len(pdf_files)
    /\ IF all_data = <<>>
       THEN ppc' = "done" /\ UNCHANGED <<sheet, outVars, download_folders>>
       ELSE IF ResetIndexRaises(from_dict(all_data)) \/ ToExcelRaises(OutputFrame(all_data))
       THEN ppc' = "raised" /\ UNCHANGED <<sheet, outVars, download_folders>>
       ELSE \E t \in (now + 1)..MaxClock :
               LET output_filepath == OutputPath(get_timestamp(t))
               IN  /\ now' = t
                   /\ download_folders' = MakeDir(download_folders, get_timestamp(t),
                                                  t, "parser")
                   /\ sheet' = WrittenSheet(OutputFrame(all_data))
                   /\ output_files' = CopyFile(WriteFile(output_files, output_filepath,
                                                         sheet'),
                                               output_filepath, LatestPath)
                   /\ output_file' = output_filepath
                   /\ ppc' = "done"
    /\ UNCHANGED <<pdf_files, perfect_llm, pdf_i, sec_i, attempt, response,
                   llm_calls, section_data, current_year_data,
                   previous_year_data, all_data>>
    /\ UNCHANGED <<cfgVars, mainVars, latest_folder, fnVars, waitVars, strategies, dlVars, orchVars>>

-----------------------------------------------------------------------------
(* pdf_parser_enhanced.py *)

\* extract_year_from_filename: the first four digits in a row, when they
\* are a year from 2000 to 2030; the two other patterns find the same digits
\* in the names the downloader writes
enhanced_year_from_filename(name) ==
    LET hits == {i \in 1..(Len(name) - 3) : \A k \in 0..3 : IsDigit(name[i + k])}
        i == CHOOSE k \in hits : \A j \in hits : k <= j
        year == DigitsValue(SubSeq(name, i, i + 3))
    IN  IF hits # {} /\ 2000 <= year /\ year <= 2030 THEN year ELSE NowYear

\* the key an extractor writes for a header: the header without 'AP2.'
ExtractorKey(header) == SubSeq(header, 3, Len(header))

\* the dicts each of the five extractors of parse_annual_report_adaptive may
\* return for a report of a year (lines 185-189, 258, 297-343, 400-401, 463);
\* clean_number_string may give None, which lines 258, 400 and 401 store
EnhancedExtracts(section, year) ==
    IF section = 1
    THEN { <<>>,
           << <<<<"FUNDCAPITALCARRIEDFORWARD", "LEVEL">>, Num(7, 0)>> >>,
           << <<<<"TOTAL">>, Num(5, 0)>> >>,
           << <<<<"FUNDCAPITALCARRIEDFORWARD", "LEVEL">>, Num(7, 0)>>,
              <<<<"NETOUTFLOWSTOTHENATIONALPENSIONSYSTEM">>, Num(0 - 2, 0)>>,
              <<<<"TOTAL">>, Num(5, 0)>> >> }
    ELSE IF section = 2
    THEN { <<>>,
           << <<ExtractorKey(OUTPUT_HEADERS[5]), Num(9, 0)>> >>,
           << <<ExtractorKey(OUTPUT_HEADERS[5]), Null>> >> }
    ELSE IF section = 3
    THEN { <<>>,
           << <<ExtractorKey(OUTPUT_HEADERS[34]), Num(125, 1)>>,
              <<ExtractorKey(OUTPUT_HEADERS[40]), Num(3, 0)>> >> }
    ELSE IF section = 4
    THEN { <<>>,
           << <<ExtractorKey(OUTPUT_HEADERS[15]) \o <<"_">> \o Str(year), Num(4, 0)>>,
              <<ExtractorKey(OUTPUT_HEADERS[15]) \o <<"_">> \o Str(year - 1),
                Num(6, 0)>> >> }
    ELSE { <<>>,
           << <<<<"EQUITIESANDPARTICIPATIONSLISTED">>, Num(8, 0)>> >> }

\* the number of extractors parse_annual_report_adaptive calls
EnhancedSections == 5

\* field_name of lines 525-534
field_name(header) ==
    LET parts == SplitDots(header)
        field_name_base == parts[2]
    IN  IF Len(parts) >= 3 /\ parts[3] = <<"LEVEL">>
        THEN field_name_base \o <<"LEVEL">>
        ELSE field_name_base

\* value of lines 522-540
HeaderValue(data, header, year) ==
    IF DictHas(data, field_name(header) \o <<"_">> \o Str(year))
    THEN DictGet(data, field_name(header) \o <<"_">> \o Str(year))
    ELSE IF DictHas(data, field_name(header))
    THEN DictGet(data, field_name(header))
    ELSE Null

RECURSIVE SortedYears(_)
\* sorted(all_data.keys())
SortedYears(years) ==
    IF years = {} THEN <<>>
    ELSE LET y == CHOOSE m \in years : \A k \in years : m <= k
         IN  <<y>> \o SortedYears(years \ {y})

\* the frame of lines 511-546
EnhancedFrame(data) ==
    LET sorted_years == SortedYears({data[i][1] : i \in 1..Len(data)})
    IN  [columns |-> OUTPUT_HEADERS,
         index |-> [r \in 1..Len(sorted_years) |-> r - 1],
         rows |-> [r \in 1..Len(sorted_years) |->
                      [c \in 1..Len(OUTPUT_HEADERS) |->
                          IF c = 1 THEN Num(sorted_years[r], 0)
                          ELSE HeaderValue(DictGet(data, sorted_years[r]),
                                           OUTPUT_HEADERS[c], sorted_years[r])]]]

\* the sheet of lines 564-582: row 1 holds the headers with an empty first
\* cell, row 2 the subheaders, the rows below the frame
EnhancedSheet(df) ==
    [header |-> [c \in 1..Len(OUTPUT_HEADERS) |->
                    IF OUTPUT_HEADERS[c] = <<"Unnamed: 0">> THEN <<>>
                    ELSE OUTPUT_HEADERS[c]],
     subheader |-> OUTPUT_SUBHEADERS,
     columns |-> df.columns, rows |-> df.rows]

\* main, lines 614-622: the PDF files of the folder are listed
EnhancedFindPdfFiles ==
    /\ ppc = "enhanced glob"
    /\ IF dir_files = {}
       THEN ppc' = "done" /\ UNCHANGED pdf_files
       ELSE pdf_files' \in Orderings(dir_files) /\ ppc' = "enhanced pdf"
    /\ UNCHANGED <<perfect_llm, pdf_i, sec_i, attempt, response, llm_calls,
                   section_data, current_year_data, previous_year_data,
                   all_data, sheet>>
    /\ UNCHANGED <<cfgVars, mainVars, folderVars, fnVars, waitVars, outVars, strategies, dlVars, orchVars>>

\* one extractor call of parse_annual_report_adaptive and the update with
\* its result (lines 474-489); current_year_data stands for
\* all_extracted_data
EnhancedExtract ==
    /\ ppc = "enhanced pdf" /\ pdf_i <= Len(pdf_files)
    /\ sec_i <= EnhancedSections
    /\ \E data \in EnhancedExtracts(sec_i,
                                    enhanced_year_from_filename(pdf_files[pdf_i])) :
          current_year_data' = DictUpdate(current_year_data, data)
    /\ sec_i' = sec_i + 1
    /\ UNCHANGED <<pdf_files, perfect_llm, pdf_i, attempt, response, llm_calls,
                   section_data, previous_year_data, all_data, sheet, ppc>>
    /\ UNCHANGED <<cfgVars, mainVars, folderVars, fnVars, waitVars, outVars, strategies, dlVars, orchVars>>

\* parse_annual_report_adaptive returns and main stores the data of the
\* year (lines 626-632)
EnhancedFinishPdf ==
    /\ ppc = "enhanced pdf" /\ pdf_i <= Len(pdf_files)
    /\ sec_i = EnhancedSections + 1
    /\ all_data' = IF current_year_data # <<>>
                   THEN DictSet(all_data,
                                enhanced_year_from_filename(pdf_files[pdf_i]),
                                current_year_data)
                   ELSE all_data
    /\ pdf_i' = pdf_i + 1
    /\ sec_i' = 1
    /\ current_year_data' = <<>>
    /\ UNCHANGED <<pdf_files, perfect_llm, attempt, response, llm_calls,
                   section_data, previous_year_data, sheet, ppc>>
    /\ UNCHANGED <<cfgVars, mainVars, folderVars, fnVars, waitVars, outVars, strategies, dlVars, orchVars>>

\* main, lines 634-639: create_output when there is data; both files are
\* written from the same frame (lines 549-582)
EnhancedCreateOutput ==
    /\ ppc = "enhanced pdf" /\ pdf_i > Len(pdf_files)
    /\ IF all_data = <<>>
       THEN UNCHANGED <<sheet, outVars>>
       ELSE \E t \in (now + 1)..MaxClock :
               LET output_filepath == OutputPath(get_timestamp(t))
               IN  /\ now' = t
                   /\ sheet' = EnhancedSheet(EnhancedFrame(all_data))
                   /\ output_files' = WriteFile(WriteFile(output_files, output_filepath,
                                                          sheet'),
                                                LatestPath, sheet')
                   /\ output_file' = output_filepath
    /\ ppc' = "done"
    /\ UNCHANGED <<pdf_files, perfect_llm, pdf_i, sec_i, attempt, response,
                   llm_calls, section_data, current_year_data,
                   previous_year_data, all_data>>
    /\ UNCHANGED <<cfgVars, mainVars, folderVars, fnVars, waitVars, strategies, dlVars, orchVars>>

-----------------------------------------------------------------------------
(* pdf_parser_enhanced.py : clean_number_string *)

\* the most characters of a string given to clean_number_string
MaxLen == 5

\* None as a result
None == Null

\* the argument value_str: None or a str
NoneArg == [none |-> TRUE, s |-> <<>>]
StrArg(s) == [none |-> FALSE, s |-> s]

\* the blanks str.strip() removes: the space and the non-breaking space
IsSpace(c) == c \in {" ", "nbsp"}

RECURSIVE StripSpace(_)
\* str(value_str).strip() (line 74)
StripSpace(s) ==
    IF s = <<>> THEN s
    ELSE IF IsSpace(s[1]) THEN StripSpace(Tail(s))
    ELSE IF IsSpace(s[Len(s)]) THEN StripSpace(SubSeq(s, 1, Len(s) - 1))
    ELSE s

\* RemoveSeparators that leaves the non-breaking spaces in
RemoveBlanksOnly(s) == SelectSeq(s, LAMBDA c : c \notin {" ", ","})

\* value_str.replace(' ', '').replace(',', '').replace('\xa0', '') (line 83)
RemoveSeparators(s) == SelectSeq(s, LAMBDA c : c \notin {" ", ",", "nbsp"})

\* float(cleaned), int(cleaned): both strip the blanks at the ends first
FloatOf(s) == ParseFloat(StripSpace(s))
IntOfStr(s) == ParseInt(StripSpace(s))

\* clean_number_string(value_str, allow_decimal, is_percentage), lines 60-93;
\* an int and a float of the same value are the same number
clean_number_string(value, decimal, percentage) ==
    IF value.none THEN None
    ELSE LET stripped == StripSpace(value.s)
             unsigned == IF percentage
                         THEN StripSpace(SelectSeq(stripped, LAMBDA c : c # "%"))
                         ELSE stripped
             cleaned == RemoveSeparators(unsigned)
             has_decimal == \E i \in 1..Len(cleaned) : cleaned[i] = "."
         IN  IF stripped = <<>> \/ stripped = <<"-">> THEN None
             ELSE IF has_decimal \/ decimal \/ percentage
             THEN (IF FloatOf(cleaned).ok THEN FloatOf(cleaned).v ELSE None)
             ELSE (IF IntOfStr(cleaned).ok THEN Num(IntOfStr(cleaned).n, 0) ELSE None)

\* the characters the strings of the calls are made of
Characters == {"2", "0", " ", "nbsp", "-", "%"}

\* the values clean_number_string is called with
ValueStrings ==
    {NoneArg} \cup {StrArg(s) : s \in UNION {[1..n -> Characters] : n \in 0..MaxLen}}

-----------------------------------------------------------------------------
(* orchestrator.py *)

DownloaderScript == "ap2_downloader.py"
ParserScript == "pdf_parser_new.py"

\* the scripts the orchestrator runs; cpc holds the state of the process of
\* each: "none", "launch", "running", "exited" or "killed"
Scripts == {DownloaderScript, ParserScript}
NoChildren == [script \in Scripts |-> "none"]

\* the ways a child process ends and the return code of each: a return of
\* main or an uncaught exception of the script, or a signal that kills it
\* (ap2_downloader.py lines 232-250, pdf_parser_new.py lines 501-531,
\* config.py line 342)
Endings(script) ==
    IF script = DownloaderScript
    THEN {"config invalid", "error re-raised", "no reports", "completed", "killed"}
    ELSE {"config invalid", "no folder", "no pdf", "no data", "output written",
          "error", "killed"}

ExitCode(ending) ==
    IF ending \in {"config invalid", "error re-raised", "error"} THEN 1
    ELSE IF ending = "killed" THEN 0 - 9
    ELSE 0

\* the lines a child writes
StdoutLines == {<<>>, <<"line">>}
StderrLines ==
    {<<>>, <<"INFO - line">>, <<"UserWarning: x">>,
     <<"UserWarning: x", "INFO - line">>, <<"  warn(msg)", "Traceback">>}

\* one call of the logger
LogLine(level, text, script, code) ==
    [level |-> level, text |-> text, script |-> script, code |-> code]

\* 'UserWarning' in line or 'warn(' in line (line 68)
IsCommonWarning(line) == line \in {"UserWarning: x", "  warn(msg)"}

\* lines 61-69: the child's output is logged
OutputLog(script, out, err) ==
    [i \in 1..Len(out) |-> LogLine("info", out[i], script, 0)]
        \o [i \in 1..Len(SelectSeq(err, LAMBDA l : ~IsCommonWarning(l))) |->
               LogLine("warning", SelectSeq(err, LAMBDA l : ~IsCommonWarning(l))[i],
                       script, 0)]

\* Succeeded when only a return code above zero counts as failure
SucceededUnlessPositive(code) == code <= 0

\* the test of line 72, negated
Succeeded(code) == code = 0

\* run_script up to the call of subprocess.run (lines 46-52)
CallRunScript(script) ==
    /\ child' = script
    /\ cpc' = [cpc EXCEPT ![script] = "launch"]
    /\ stdout' = <<>> /\ stderr' = <<>>
    /\ olog' = Append(olog, LogLine("info", "Starting", script, 0))

\* main up to the first run_script (lines 86-95)
StartStep1 ==
    /\ opc = "start"
    /\ CallRunScript(DownloaderScript)
    /\ opc' = "wait1"
    /\ UNCHANGED <<success, results, exit_status>>
    /\ UNCHANGED <<cfgVars, mainVars, folderVars, fnVars, waitVars, outVars, dlVars, parserVars>>

\* subprocess.run starts the child
ChildStarts ==
    /\ opc \in {"wait1", "wait2"} /\ cpc[child] = "launch"
    /\ cpc' = [cpc EXCEPT ![child] = "running"]
    /\ UNCHANGED <<opc, child, success, results, stdout, stderr, exit_status, olog>>
    /\ UNCHANGED <<cfgVars, mainVars, folderVars, fnVars, waitVars, outVars, dlVars, parserVars>>

\* subprocess.run raises (the interpreter cannot be started): lines 79-81
LaunchFails ==
    /\ opc \in {"wait1", "wait2"} /\ cpc[child] = "launch"
    /\ cpc' = [cpc EXCEPT ![child] = "none"]
    /\ success' = FALSE
    /\ olog' = Append(olog, LogLine("error", "Error running", child, 0))
    /\ opc' = IF opc = "wait1" THEN "check1" ELSE "check2"
    /\ UNCHANGED <<child, results, stdout, stderr, exit_status>>
    /\ UNCHANGED <<cfgVars, mainVars, folderVars, fnVars, waitVars, outVars, dlVars, parserVars>>

\* the child ends
ChildExits ==
    /\ opc \in {"wait1", "wait2"} /\ cpc[child] = "running"
    /\ \E ending \in Endings(child) :
          results' = Append(results, [script |-> child, ending |-> ending,
                                      returncode |-> ExitCode(ending)])
    /\ stdout' \in StdoutLines
    /\ stderr' \in StderrLines
    /\ cpc' = [cpc EXCEPT ![child] = "exited"]
    /\ UNCHANGED <<opc, child, success, exit_status, olog>>
    /\ UNCHANGED <<cfgVars, mainVars, folderVars, fnVars, waitVars, outVars, dlVars, parserVars>>

\* Completed for a call that does not wait for the child
CompletedOrRunning(state) == state \in {"running", "exited"}

\* subprocess.run waits for the child (communicate and wait, line 52): it
\* returns when the child has ended
Completed(state) == state = "exited"

\* result.returncode: the return code of the child that has ended; a
\* process that has not ended has none, which is not equal to 0
returncode(script) ==
    IF cpc[script] = "exited"
    THEN [none |-> FALSE, n |-> results[Len(results)].returncode]
    ELSE [none |-> TRUE, n |-> 0]

\* subprocess.run returns and run_script logs and tests the result
\* (lines 60-77)
RunScriptReturns ==
    /\ opc \in {"wait1", "wait2"} /\ Completed(cpc[child])
    /\ LET code == returncode(child).n
       IN  /\ success' = (~returncode(child).none /\ Succeeded(code))
           /\ olog' = olog \o OutputLog(child, stdout, stderr)
                          \o <<IF ~returncode(child).none /\ Succeeded(code)
                               THEN LogLine("info", "completed successfully", child, 0)
                               ELSE LogLine("error", "failed with return code",
                                            child, code)>>
    /\ opc' = IF opc = "wait1" THEN "check1" ELSE "check2"
    /\ UNCHANGED <<child, cpc, results, stdout, stderr, exit_status>>
    /\ UNCHANGED <<cfgVars, mainVars, folderVars, fnVars, waitVars, outVars, dlVars, parserVars>>

\* lines 97-105: sys.exit(1) after a failed downloader, else the parser
CheckStep1 ==
    /\ opc = "check1"
    /\ IF ~success
       THEN /\ olog' = Append(olog, LogLine("error", "Pipeline failed at Step 1",
                                            DownloaderScript, 0))
            /\ exit_status' = 1
            /\ opc' = "exited"
            /\ UNCHANGED <<child, cpc, stdout, stderr>>
       ELSE /\ CallRunScript(ParserScript)
            /\ opc' = "wait2"
            /\ UNCHANGED exit_status
    /\ UNCHANGED <<success, results>>
    /\ UNCHANGED <<cfgVars, mainVars, folderVars, fnVars, waitVars, outVars, dlVars, parserVars>>

\* lines 107-122: sys.exit(1) after a failed parser, else the success
\* message and the end of main
CheckStep2 ==
    /\ opc = "check2"
    /\ IF ~success
       THEN /\ olog' = Append(olog, LogLine("error", "Pipeline failed at Step 2",
                                            ParserScript, 0))
            /\ exit_status' = 1
       ELSE /\ olog' = Append(olog, LogLine("info",
                                            "ANNUAL PIPELINE COMPLETED SUCCESSFULLY",
                                            "", 0))
            /\ exit_status' = 0
    /\ opc' = "exited"
    /\ UNCHANGED <<child, cpc, success, results, stdout, stderr>>
    /\ UNCHANGED <<cfgVars, mainVars, folderVars, fnVars, waitVars, outVars, dlVars, parserVars>>

\* KeyboardInterrupt while a child is waited for (lines 128-130);
\* subprocess.run kills the child before it lets the exception pass
Interrupted ==
    /\ opc \in {"wait1", "wait2"}
    /\ cpc' = [cpc EXCEPT ![child] = IF @ = "running" THEN "killed" ELSE @]
    /\ olog' = Append(olog, LogLine("warning", "Pipeline interrupted by user", "", 0))
    /\ exit_status' = 1
    /\ opc' = "exited"
    /\ UNCHANGED <<child, success, results, stdout, stderr>>
    /\ UNCHANGED <<cfgVars, mainVars, folderVars, fnVars, waitVars, outVars, dlVars, parserVars>>

-----------------------------------------------------------------------------
(* The pages and settings the downloader is run on *)

Heading(text) == [tag |-> "h2", heading |-> TRUE, text |-> text, links |-> <<>>]
Paragraph(links) == [tag |-> "p", heading |-> FALSE, text |-> <<>>, links |-> links]
\* a div holds the links of the paragraphs inside it
Division(links) == [tag |-> "div", heading |-> FALSE, text |-> <<>>, links |-> links]
Link(href, text) == [href |-> href, text |-> text]

AnnualLink == Link(<<"annual-report", ".pdf">>, <<"Annual Report">>)
HalfYearLink == Link(<<"half-year-report", ".pdf">>, <<"Half", "-year Report">>)
\* the annual report's URL once more, under another text
RepeatedLink == Link(<<"annual-report", ".pdf">>, <<" ", "half", "-year results">>)
SecondAnnualLink == Link(<<"sustainability-report", ".pdf">>, <<"Sustainability Report">>)
PressLink == Link(<<"press-release", ".html">>, <<"Press release">>)

Elems ==
    { Heading(<<"2", "0", "2", "4">>), Heading(<<" ", "2", "0", "2", "3">>),
      Heading(<<"Archive">>),
      Paragraph(<<AnnualLink>>), Paragraph(<<HalfYearLink>>),
      Paragraph(<<RepeatedLink>>), Paragraph(<<SecondAnnualLink>>),
      Division(<<PressLink, AnnualLink, HalfYearLink, RepeatedLink>>) }

Pages == UNION {[1..n -> Elems] : n \in 0..MaxElems}

TargetYears == {IntValue(2024), IntValue(2023), StrValue(<<"latest">>)}

ReportTypeSettings ==
    { DefaultReportTypes,
      [t \in {"annual", "half_year", "year_end"} |-> t \in {"annual", "half_year"}],
      [t \in {"annual"} |-> TRUE] }

\* the values of the variables of a component that is not running
DownloaderIdle ==
    /\ page = <<>> /\ all_reports = <<>> /\ reports_to_download = <<>>
    /\ dl_i = 1 /\ initial_files = {} /\ downloaded_file = <<>>
    /\ dir_files = {} /\ downloaded = <<>> /\ dl_log = <<>> /\ dpc = "idle"

ParserIdle ==
    /\ pdf_files = <<>> /\ perfect_llm = FALSE /\ pdf_i = 1 /\ sec_i = 1
    /\ attempt = 0 /\ response = <<>> /\ llm_calls = 0 /\ section_data = <<>>
    /\ current_year_data = <<>> /\ previous_year_data = <<>> /\ all_data = <<>>
    /\ sheet = NoSheet /\ strategies = <<>> /\ ppc = "idle"

OrchestratorIdle ==
    /\ opc = "idle" /\ child = "none" /\ cpc = NoChildren /\ success = FALSE
    /\ results = <<>> /\ stdout = <<>> /\ stderr = <<>>
    /\ exit_status = 0 /\ olog = <<>>

\* no download is going on and wait_for_download is not called
WaitIdle ==
    /\ browser = NoDownload /\ earlier = NoDownload /\ elapsed = 0 /\ new_file = <<>>
    /\ size1 = 0 /\ size2 = 0 /\ wpc = "idle"

\* clean_number_string is not called
CleanNumberIdle ==
    /\ value_str = NoneArg /\ allow_decimal = FALSE /\ is_percentage = FALSE
    /\ number = Null /\ fpc = "idle"

FunctionsIdle == CleanNumberIdle /\ WaitIdle

\* the downloader's main has not started a browser and has not left its try
\* statement
MainIdle ==
    /\ driver = "None" /\ chrome = "none" /\ try_outcome = "none"
    /\ pending = "none" /\ spc = "idle" /\ shutdown = <<>>

\* an output folder without files; no path has been returned
OutputEmpty ==
    /\ now = 0 /\ output_files = <<>> /\ output_file = <<>>
    /\ download_folders = <<>> /\ latest_folder = <<>>

\* the downloader's main after its browser is ready (lines 223-227)
InitDownloader ==
    /\ TARGET_YEAR \in TargetYears
    /\ REPORT_TYPES \in ReportTypeSettings
    /\ ShippedLists
    /\ page \in Pages
    /\ all_reports = <<>> /\ reports_to_download = <<>>
    /\ dl_i = 1 /\ initial_files = {} /\ downloaded_file = <<>>
    /\ dir_files = {} /\ downloaded = <<>> /\ dl_log = <<>> /\ dpc = "parse"
    /\ ParserIdle /\ OrchestratorIdle /\ OutputEmpty /\ MainIdle /\ FunctionsIdle

NextDownloader ==
    \/ ParsePage
    \/ FilterReports
    \/ DriverGet
    \/ WaitReturns
    \/ WaitTimesOut
    \/ RenameDownloaded
    \/ DownloadsReturn

SpecDownloader == InitDownloader /\ [][NextDownloader]_vars

-----------------------------------------------------------------------------
(* The download folders the parser is run on *)

\* report pages with the reports of one year and of two years
ParserPages ==
    { <<Heading(<<"2", "0", "2", "4">>),
        Division(<<PressLink, AnnualLink, HalfYearLink, RepeatedLink>>)>>,
      <<Heading(<<"2", "0", "2", "4">>), Paragraph(<<AnnualLink>>),
        Heading(<<"2", "0", "2", "3">>), Paragraph(<<SecondAnnualLink>>),
        Paragraph(<<HalfYearLink>>)>> }

\* the folder a run of the downloader leaves: the renamed files of the
\* queued reports whose download succeeded
DownloadFolder ==
    /\ TARGET_YEAR \in TargetYears
    /\ REPORT_TYPES \in ReportTypeSettings
    /\ ShippedLists
    /\ page \in ParserPages
    /\ all_reports = parse_reports_page(page)
    /\ reports_to_download = filter_reports(all_reports, TARGET_YEAR, REPORT_TYPES)
    /\ \E succeeded \in SUBSET (1..Len(reports_to_download)) :
          /\ downloaded = [i \in 1..Len(SelectSeq([k \in 1..Len(reports_to_download) |-> k],
                                                  LAMBDA k : k \in succeeded)) |->
                              NewName(reports_to_download[
                                  SelectSeq([k \in 1..Len(reports_to_download) |-> k],
                                            LAMBDA k : k \in succeeded)[i]])]
          /\ dir_files = {downloaded[i] : i \in 1..Len(downloaded)}
    /\ dl_i = Len(reports_to_download) + 1
    /\ initial_files = {} /\ downloaded_file = <<>> /\ dl_log = <<>> /\ dpc = "done"
    /\ pdf_files = <<>> /\ perfect_llm = FALSE /\ pdf_i = 1 /\ sec_i = 1
    /\ attempt = 0 /\ response = <<>> /\ llm_calls = 0 /\ section_data = <<>>
    /\ current_year_data = <<>> /\ previous_year_data = <<>> /\ all_data = <<>>
    /\ sheet = NoSheet /\ strategies = <<>>
    /\ OrchestratorIdle /\ OutputEmpty /\ MainIdle /\ FunctionsIdle

\* pdf_parser_new.py is started on the folder
InitParser == DownloadFolder /\ ppc = "glob"

NextParser ==
    \/ FindPdfFiles
    \/ StartPdf
    \/ SectionStart
    \/ SectionRaises
    \/ LLMCall
    \/ LLMCallRaises
    \/ HandleResponse
    \/ MergeSection
    \/ FinishPdf
    \/ CreateOutput

SpecParser == InitParser /\ [][NextParser]_vars

\* pdf_parser_enhanced.py is started on the folder
InitEnhanced == DownloadFolder /\ ppc = "enhanced glob"

NextEnhanced ==
    \/ EnhancedFindPdfFiles
    \/ EnhancedExtract
    \/ EnhancedFinishPdf
    \/ EnhancedCreateOutput

SpecEnhanced == InitEnhanced /\ [][NextEnhanced]_vars

-----------------------------------------------------------------------------
(* config.py : validate_config *)

\* the errors validate_config collects (lines 318-334)
ConfigErrors(headers, subheaders, year, types) ==
    (IF Len(headers) # Len(subheaders) THEN {"headers"} ELSE {})
    \cup (IF /\ year.kind = "str"
             /\ [i \in 1..Len(year.s) |-> Lower(year.s[i])] # <<"latest">>
             /\ ~ParseInt(year.s).ok
          THEN {"TARGET_YEAR"} ELSE {})
    \cup (IF \E t \in DOMAIN types : types[t] THEN {} ELSE {"REPORT_TYPES"})

\* validate_config that accepts every configuration
validate_nothing(headers, subheaders, year, types) == "True"

\* validate_config(): "ValueError" when it raises (lines 336-339)
validate_config(headers, subheaders, year, types) ==
    IF ConfigErrors(headers, subheaders, year, types) # {} THEN "ValueError"
    ELSE "True"

\* the lists of the file config.py: as shipped, or with an entry missing at
\* the end of one of them
ConfigLists ==
    { <<OUTPUT_HEADERS, OUTPUT_SUBHEADERS>>,
      <<OUTPUT_HEADERS, SubSeq(OUTPUT_SUBHEADERS, 1, Len(OUTPUT_SUBHEADERS) - 1)>>,
      <<SubSeq(OUTPUT_HEADERS, 1, Len(OUTPUT_HEADERS) - 1), OUTPUT_SUBHEADERS>> }

\* 'import config' at the top of a parser script runs validate_config
\* (config.py line 342); the ValueError ends the process
ImportConfig ==
    /\ ppc = "start"
    /\ ppc' = IF validate_config(config_headers, config_subheaders,
                                 TARGET_YEAR, REPORT_TYPES) = "True"
              THEN "imported" ELSE "raised"
    /\ UNCHANGED <<pdf_files, perfect_llm, pdf_i, sec_i, attempt, response,
                   llm_calls, section_data, current_year_data,
                   previous_year_data, all_data, sheet>>
    /\ UNCHANGED <<cfgVars, mainVars, folderVars, fnVars, waitVars, outVars, strategies, dlVars, orchVars>>

-----------------------------------------------------------------------------
(* Parser runs one after the other on the same output folder *)

\* what the loop of main over the PDF files can leave in all_data
\* (pdf_parser_new.py lines 515-523): nothing, one year, or two years
RunData ==
    { <<>>,
      <<<<2024, <<<<OUTPUT_HEADERS[2], Num(5, 0)>>>>>>>>,
      <<<<2024, <<<<OUTPUT_HEADERS[2], Num(7, 0)>>>>>>>>,
      <<<<2023, <<<<OUTPUT_HEADERS[3], Num(1, 0)>>>>>>,
        <<2024, <<<<OUTPUT_HEADERS[2], Num(5, 0)>>>>>>>> }

\* what the loop of pdf_parser_enhanced.py lines 622-632 can leave in
\* all_data for a report of 2024
EnhancedRunData ==
    {<<>>} \cup {<<<<2024, data>>>> : data \in EnhancedExtracts(1, 2024) \ {<<>>}}

\* the PDF file of the folder the runs read
RunPdf == <<"2", "0", "2", "4", "_", "annual", ".pdf">>

\* pdf_parser_new.py main up to line 524: the PDF files are found and the
\* loop over them has filled all_data
ParserRunExtracts ==
    /\ ppc = "imported"
    /\ pdf_files' = <<RunPdf>>
    /\ pdf_i' = 2
    /\ all_data' \in RunData
    /\ ppc' = "pdf"
    /\ UNCHANGED <<perfect_llm, sec_i, attempt, response, llm_calls,
                   section_data, current_year_data, previous_year_data, sheet>>
    /\ UNCHANGED <<cfgVars, mainVars, folderVars, fnVars, waitVars, outVars, strategies, dlVars, orchVars>>

\* pdf_parser_enhanced.py main up to line 633
EnhancedRunExtracts ==
    /\ ppc = "imported"
    /\ pdf_files' = <<RunPdf>>
    /\ pdf_i' = 2
    /\ all_data' \in EnhancedRunData
    /\ ppc' = "enhanced pdf"
    /\ UNCHANGED <<perfect_llm, sec_i, attempt, response, llm_calls,
                   section_data, current_year_data, previous_year_data, sheet>>
    /\ UNCHANGED <<cfgVars, mainVars, folderVars, fnVars, waitVars, outVars, strategies, dlVars, orchVars>>

\* the process of the run has ended and a parser is started again; the
\* output folder stays as the run left it
NextRun ==
    /\ ppc \in {"done", "raised"}
    /\ pdf_files' = <<>> /\ pdf_i' = 1 /\ all_data' = <<>> /\ sheet' = NoSheet
    /\ ppc' = "start"
    /\ UNCHANGED <<perfect_llm, sec_i, attempt, response, llm_calls,
                   section_data, current_year_data, previous_year_data>>
    /\ UNCHANGED <<cfgVars, mainVars, folderVars, fnVars, waitVars, outVars, strategies, dlVars, orchVars>>

InitOutputs ==
    /\ TARGET_YEAR = IntValue(2024)
    /\ REPORT_TYPES = DefaultReportTypes
    /\ \E lists \in ConfigLists :
          config_headers = lists[1] /\ config_subheaders = lists[2]
    /\ DownloaderIdle /\ OrchestratorIdle /\ OutputEmpty /\ MainIdle /\ FunctionsIdle
    /\ pdf_files = <<>> /\ perfect_llm = FALSE /\ pdf_i = 1 /\ sec_i = 1
    /\ attempt = 0 /\ response = <<>> /\ llm_calls = 0 /\ section_data = <<>>
    /\ current_year_data = <<>> /\ previous_year_data = <<>> /\ all_data = <<>>
    /\ sheet = NoSheet /\ strategies = <<>> /\ ppc = "start"

NextOutputs ==
    \/ ImportConfig
    \/ ParserRunExtracts
    \/ CreateOutput
    \/ EnhancedRunExtracts
    \/ EnhancedCreateOutput
    \/ NextRun

SpecOutputs == InitOutputs /\ [][NextOutputs]_vars

-----------------------------------------------------------------------------
(* A call of clean_number_string *)

\* one call of clean_number_string
CleanNumberString ==
    /\ fpc = "call"
    /\ number' = clean_number_string(value_str, allow_decimal, is_percentage)
    /\ fpc' = "returned"
    /\ UNCHANGED <<value_str, allow_decimal, is_percentage>>
    /\ UNCHANGED <<cfgVars, mainVars, folderVars, waitVars, dlVars, parserVars, orchVars, outVars>>

InitCleanNumber ==
    /\ TARGET_YEAR = IntValue(2024)
    /\ REPORT_TYPES = DefaultReportTypes
    /\ ShippedLists
    /\ DownloaderIdle /\ ParserIdle /\ OrchestratorIdle /\ OutputEmpty /\ MainIdle /\ WaitIdle
    /\ value_str \in ValueStrings
    /\ allow_decimal \in BOOLEAN
    /\ is_percentage \in BOOLEAN
    /\ number = None
    /\ fpc = "call"

NextCleanNumber == CleanNumberString

SpecCleanNumber == InitCleanNumber /\ [][NextCleanNumber]_vars

-----------------------------------------------------------------------------
(* The download of one report, the browser writing while the downloader waits *)

\* a page with the annual report of 2024
WaitPage == <<Heading(<<"2", "0", "2", "4">>), Paragraph(<<AnnualLink>>)>>

\* the files in the run's download directory before the report is requested:
\* none, a file under the name the browser would use, or a file under the
\* name the report is renamed to
FoldersBefore ==
    { {}, {AnnualLink.href},
      {NewName(filter_reports(parse_reports_page(WaitPage), IntValue(2024),
                              DefaultReportTypes)[1])} }

\* download_reports is called with the one report (line 238)
InitWait ==
    /\ TARGET_YEAR = IntValue(2024)
    /\ REPORT_TYPES = DefaultReportTypes
    /\ ShippedLists
    /\ page = WaitPage
    /\ all_reports = parse_reports_page(page)
    /\ reports_to_download = filter_reports(all_reports, TARGET_YEAR, REPORT_TYPES)
    /\ dl_i = 1 /\ initial_files = {} /\ downloaded_file = <<>>
    /\ dir_files \in FoldersBefore
    /\ downloaded = <<>> /\ dl_log = <<>> /\ dpc = "loop"
    /\ ParserIdle /\ OrchestratorIdle /\ OutputEmpty /\ MainIdle /\ CleanNumberIdle /\ WaitIdle

NextWait ==
    \/ DriverGet
    \/ BrowserStarts
    \/ BrowserWrites
    \/ BrowserFinishes
    \/ WaitLoopTest
    \/ WaitList
    \/ WaitSize1
    \/ WaitSize2
    \/ RenameDownloaded
    \/ DownloadsReturn

SpecWait == InitWait /\ [][NextWait]_vars

-----------------------------------------------------------------------------
(* perfect_llm_parser.py : get_field_mapping *)

\* the keys of get_field_mapping(section_name, current_year), in the order
\* of the dict; each literal of lines 363-438 is the entry of OUTPUT_HEADERS
\* named here, the keys of the previous year carry the prefix '<year>_'
get_field_mapping(section_name, current_year) ==
    LET previous_year == current_year - 1
    IN  IF section_name = "fund_capital" THEN SubSeq(OUTPUT_HEADERS, 2, 4)
        ELSE IF section_name = "asset_allocation" THEN SubSeq(OUTPUT_HEADERS, 5, 32)
        ELSE IF section_name = "real_assets" THEN SubSeq(OUTPUT_HEADERS, 33, 42)
        ELSE IF section_name = "bonds"
        THEN SubSeq(OUTPUT_HEADERS, 43, 54)
                 \o [i \in 1..12 |-> YearPrefix(previous_year) \o OUTPUT_HEADERS[42 + i]]
        ELSE <<>>

-----------------------------------------------------------------------------
(* llm_extractor.py : extract_annual_data *)

RECURSIVE Pow10(_)
Pow10(n) == IF n = 0 THEN 1 ELSE 10 * Pow10(n - 1)

\* float(value) of a value of the JSON object (line 87): ok FALSE stands
\* for ValueError; kind tells a finite number from inf and nan
float_val(value) ==
    LET t == Strip(value.s)
        signed == t # <<>> /\ t[1] \in {"-", "+"}
        body == IF signed THEN Tail(t) ELSE t
        es == {i \in 1..Len(t) : t[i] \in {"e", "E"}}
        e == CHOOSE i \in es : TRUE
        mantissa == SubSeq(t, 1, e - 1)
        exponent == SubSeq(t, e + 1, Len(t))
        blank(s) == \E i \in 1..Len(s) : s[i] = " "
        m == ParseFloat(mantissa)
        x == ParseInt(exponent)
    IN  IF value.t = "num"
        THEN [ok |-> TRUE, kind |-> "finite", v |-> Num(value.m, value.d)]
        ELSE IF body \in {<<"inf">>, <<"Infinity">>}
        THEN [ok |-> TRUE, kind |-> "inf", v |-> Num(0, 0)]
        ELSE IF body = <<"nan">>
        THEN [ok |-> TRUE, kind |-> "nan", v |-> Num(0, 0)]
        ELSE IF es # {}
        THEN IF /\ Cardinality(es) = 1
                /\ ~blank(mantissa) /\ ~blank(exponent)
                /\ m.ok /\ x.ok
             THEN [ok |-> TRUE, kind |-> "finite",
                   v |-> IF x.n >= 0 THEN Num(m.v.m * Pow10(x.n), m.v.d)
                         ELSE Num(m.v.m, m.v.d - x.n)]
             ELSE [ok |-> FALSE, kind |-> "finite", v |-> Num(0, 0)]
        ELSE [ok |-> ParseFloat(value.s).ok, kind |-> "finite",
              v |-> ParseFloat(value.s).v]

RECURSIVE AnnualInto(_, _)
\* the loop of lines 82-94 over data.items(): None and what float() refuses
\* are skipped, and so is nan, for which int() raises ValueError; for an
\* infinite value int() raises OverflowError, which leaves the loop
AnnualInto(result, items) ==
    IF items = <<>> THEN [raised |-> FALSE, result |-> result]
    ELSE LET key == items[1][1]
             value == items[1][2]
             f == float_val(value)
         IN  IF value.t = "null" \/ ~f.ok \/ f.kind = "nan"
             THEN AnnualInto(result, Tail(items))
             ELSE IF f.kind = "inf"
             THEN [raised |-> TRUE, result |-> <<>>]
             ELSE AnnualInto(DictSet(result, key, f.v), Tail(items))

\* extract_annual_data (lines 47-101) on the content the API answers with:
\* {} when the extractor is disabled and when anything in the try block
\* raises; _call_llm prepares the content as lines 317-325 do
extract_annual_data(enabled, content) ==
    LET data == ParseResponse(content)
        loop == AnnualInto(<<>>, data.dict)
    IN  IF ~enabled \/ data.kind # "object" \/ loop.raised THEN <<>>
        ELSE loop.result

-----------------------------------------------------------------------------
(* Calls of the two LLM extractions on the answers of the LLM *)

\* the report the extraction is called on
ExtractionPdf == <<"AnnualReport", "2", "0", "2", "4", ".pdf">>

\* keys an answer may hold: fields of fund_capital, a field of bonds for
\* either year, and a key that is no field
AnswerKeys(year) ==
    <<OUTPUT_HEADERS[2], OUTPUT_HEADERS[3], OUTPUT_HEADERS[4], <<"page">>,
      OUTPUT_HEADERS[43], YearPrefix(year - 1) \o OUTPUT_HEADERS[43]>>

\* values an answer may hold: numbers, strings that are numbers, strings
\* that are none, the empty string and null
AnswerValues ==
    { RawNum(5, 0), RawNum(25, 1),
      RawStr(<<"1", "2", ".", "5", "0">>), RawStr(<<" ", "4", " ">>),
      RawStr(<<"-", "7">>), RawStr(<<"1", "e", "3">>), RawStr(<<"inf">>),
      RawStr(<<"nan">>), RawStr(<<"n/a">>), RawStr(<<>>), RawNull }

\* the JSON object with the members m
Object(m) == <<Brace("{")>> \o m \o <<Brace("}")>>

\* the longest answer that is put together from any pieces
MaxPieces == 4

\* the pieces of such an answer: text, a code fence, a brace, a member
Pieces(year) ==
    {Text, Fence, Brace("{"), Brace("}"), Member(AnswerKeys(year)[1], RawNum(5, 0))}

\* the answers: text without JSON; any pieces in any order; objects of one member; objects of a
\* member of any value before a member that is a number; objects that give a
\* number to each key of a set of keys
Answers(year) ==
    LET keys == AnswerKeys(year)
        chosen(S) == SelectSeq([i \in 1..Len(keys) |-> i], LAMBDA i : i \in S)
    IN  {<<Text>>}
            \cup UNION {[1..n -> Pieces(year)] : n \in 1..MaxPieces}
            \cup {Object(<<Member(keys[1], v)>>) : v \in AnswerValues}
            \cup {Object(<<Member(keys[1], v), Member(keys[2], RawNum(9, 0))>>) :
                      v \in AnswerValues}
            \cup {Object([i \in 1..Len(chosen(S)) |->
                              Member(keys[chosen(S)[i]], RawNum(5, 0))]) :
                      S \in SUBSET (1..Len(keys))}

\* one call of extract_annual_data: the API has answered with response
ExtractAnnualData ==
    /\ ppc \in {"annual", "annual disabled"}
    /\ section_data' = extract_annual_data(ppc = "annual", response)
    /\ ppc' = "annual returned"
    /\ UNCHANGED <<pdf_files, perfect_llm, pdf_i, sec_i, attempt, response,
                   llm_calls, current_year_data, previous_year_data, all_data,
                   sheet, strategies>>
    /\ UNCHANGED <<cfgVars, mainVars, folderVars, fnVars, waitVars, outVars, dlVars, orchVars>>

\* extract_all_sections has come to a section of the report and the LLM has
\* answered the first call (line 314), or extract_annual_data has been
\* called and the API has answered (line 79)
InitExtraction ==
    /\ TARGET_YEAR = IntValue(2024)
    /\ REPORT_TYPES = DefaultReportTypes
    /\ ShippedLists
    /\ DownloaderIdle /\ OrchestratorIdle /\ OutputEmpty /\ MainIdle /\ FunctionsIdle
    /\ pdf_files = <<ExtractionPdf>> /\ pdf_i = 1
    /\ sec_i \in 1..Len(sections)
    /\ attempt = 0 /\ section_data = <<>>
    /\ current_year_data = <<>> /\ previous_year_data = <<>> /\ all_data = <<>>
    /\ sheet = NoSheet
    /\ response \in Answers(extract_year_from_filename(ExtractionPdf))
    /\ \/ /\ ppc = "parse"
          /\ perfect_llm = TRUE /\ llm_calls = 1 /\ strategies = <<"llm">>
       \/ /\ ppc \in {"annual", "annual disabled"}
          /\ perfect_llm = FALSE /\ llm_calls = 0 /\ strategies = <<>>
          /\ sec_i = 1

NextExtraction ==
    \/ HandleResponse
    \/ LLMCall
    \/ LLMCallRaises
    \/ MergeSection
    \/ ExtractAnnualData

SpecExtraction == InitExtraction /\ [][NextExtraction]_vars

-----------------------------------------------------------------------------
(* A run of the downloader from the import of config.py to filter_reports *)

\* the values config.py may give TARGET_YEAR: years as int and as str,
\* 'latest' in three spellings, and a word that is neither
TargetYearSettings ==
    { IntValue(2024), IntValue(2023),
      StrValue(<<"2", "0", "2", "4">>), StrValue(<<" ", "2", "0", "2", "3">>),
      StrValue(<<"latest">>), StrValue(<<"Latest">>), StrValue(<<"LATEST">>),
      StrValue(<<"newest">>) }

\* pages on which the newest year only has a half-year report
LatestPages ==
    { <<Heading(<<"2", "0", "2", "4">>), Paragraph(<<HalfYearLink>>),
        Heading(<<"2", "0", "2", "3">>), Paragraph(<<SecondAnnualLink>>)>>,
      <<Heading(<<"2", "0", "2", "4">>), Paragraph(<<HalfYearLink>>),
        Heading(<<"2", "0", "2", "3">>), Paragraph(<<AnnualLink>>),
        Paragraph(<<SecondAnnualLink>>)>> }

\* 'import config' at the top of ap2_downloader.py (line 17) runs
\* validate_config (config.py line 342); the ValueError ends the process
DownloaderImportsConfig ==
    /\ dpc = "import"
    /\ dpc' = IF validate_config(config_headers, config_subheaders,
                                 TARGET_YEAR, REPORT_TYPES) = "True"
              THEN "parse" ELSE "config error"
    /\ UNCHANGED <<page, all_reports, reports_to_download, dl_i, initial_files,
                   downloaded_file, dir_files, downloaded, dl_log>>
    /\ UNCHANGED <<cfgVars, mainVars, folderVars, fnVars, waitVars, outVars, parserVars, orchVars>>

InitTargetYear ==
    /\ TARGET_YEAR \in TargetYearSettings
    /\ REPORT_TYPES \in ReportTypeSettings
                            \cup {[t \in {"annual", "half_year", "year_end"} |-> FALSE]}
    /\ ShippedLists
    /\ page \in Pages \cup LatestPages
    /\ all_reports = <<>> /\ reports_to_download = <<>>
    /\ dl_i = 1 /\ initial_files = {} /\ downloaded_file = <<>>
    /\ dir_files = {} /\ downloaded = <<>> /\ dl_log = <<>> /\ dpc = "import"
    /\ ParserIdle /\ OrchestratorIdle /\ OutputEmpty /\ MainIdle /\ FunctionsIdle

NextTargetYear ==
    \/ DownloaderImportsConfig
    \/ ParsePage
    \/ FilterReports

SpecTargetYear == InitTargetYear /\ [][NextTargetYear]_vars

-----------------------------------------------------------------------------
(* Runs of the downloader and of the parser on the same downloads directory *)

\* a folder gets a file at time t: its modification time becomes t
AddFiles(folders, timestamp, files, t) ==
    IF files = {} THEN folders
    ELSE [folders EXCEPT ![timestamp].files = @ \cup files,
                         ![timestamp].mtime = t]

\* a run of the downloader, from start to end (ap2_downloader.py main):
\* the folder of the run is made (lines 199-221) and the reports that are
\* downloaded are renamed into it (line 237); it may stay empty
DownloaderRun ==
    /\ ppc = "start"
    /\ \E t \in (now + 1)..MaxClock, t2 \in (now + 1)..MaxClock, files \in {{}, {RunPdf}} :
          /\ t <= t2
          /\ download_folders'
                 = [AddFiles(MakeDir(download_folders, get_timestamp(t), t, "downloader"),
                             get_timestamp(t), files, t2)
                        EXCEPT ![get_timestamp(t)].downloader = t]
          /\ now' = t2
    /\ UNCHANGED <<output_files, output_file, latest_folder>>
    /\ UNCHANGED <<cfgVars, mainVars, fnVars, waitVars, dlVars, parserVars, orchVars>>

\* the folders max(download_folders, key=os.path.getmtime) may return: those
\* of the latest modification time
LatestFolders(folders) ==
    {f \in DOMAIN folders : \A g \in DOMAIN folders : folders[g].mtime <= folders[f].mtime}

\* LatestFolders that only looks at the folders a downloader has used
LatestDownloaderFolders(folders) ==
    {f \in DOMAIN folders :
        /\ folders[f].downloader > 0
        /\ \A g \in DOMAIN folders : folders[g].downloader <= folders[f].downloader}

\* find_latest_download_folder (lines 433-445) and the test of line 502
FindLatestDownloadFolder ==
    /\ ppc = "imported"
    /\ IF DOMAIN download_folders = {}
       THEN latest_folder' = <<>> /\ ppc' = "done"
       ELSE latest_folder' \in LatestFolders(download_folders) /\ ppc' = "folder"
    /\ UNCHANGED <<pdf_files, perfect_llm, pdf_i, sec_i, attempt, response,
                   llm_calls, section_data, current_year_data,
                   previous_year_data, all_data, sheet, strategies>>
    /\ UNCHANGED <<cfgVars, mainVars, fnVars, waitVars, outVars, download_folders, dlVars,
                   orchVars>>

\* main lines 505-524: the PDF files of the folder are listed; without any
\* main returns, else the loop over them fills all_data
GlobFolder ==
    /\ ppc = "folder"
    /\ IF download_folders[latest_folder].files = {}
       THEN ppc' = "done" /\ UNCHANGED <<pdf_files, pdf_i, all_data>>
       ELSE /\ pdf_files' = <<RunPdf>>
            /\ pdf_i' = 2
            /\ all_data' \in RunData
            /\ ppc' = "pdf"
    /\ UNCHANGED <<perfect_llm, sec_i, attempt, response, llm_calls,
                   section_data, current_year_data, previous_year_data, sheet,
                   strategies>>
    /\ UNCHANGED <<cfgVars, mainVars, folderVars, fnVars, waitVars, outVars, dlVars, orchVars>>

InitFolders ==
    /\ TARGET_YEAR = IntValue(2024)
    /\ REPORT_TYPES = DefaultReportTypes
    /\ ShippedLists
    /\ DownloaderIdle /\ OrchestratorIdle /\ OutputEmpty /\ MainIdle /\ FunctionsIdle
    /\ pdf_files = <<>> /\ perfect_llm = FALSE /\ pdf_i = 1 /\ sec_i = 1
    /\ attempt = 0 /\ response = <<>> /\ llm_calls = 0 /\ section_data = <<>>
    /\ current_year_data = <<>> /\ previous_year_data = <<>> /\ all_data = <<>>
    /\ sheet = NoSheet /\ strategies = <<>> /\ ppc = "start"

NextFolders ==
    \/ DownloaderRun
    \/ ImportConfig
    \/ FindLatestDownloadFolder
    \/ GlobFolder
    \/ CreateOutput
    \/ NextRun

SpecFolders == InitFolders /\ [][NextFolders]_vars

-----------------------------------------------------------------------------
(* The downloads of two reports, the first one going on after its timeout *)

\* a page with the annual report and the half-year report of 2024
TwoReportsPage ==
    <<Heading(<<"2", "0", "2", "4">>), Paragraph(<<AnnualLink>>),
      Paragraph(<<HalfYearLink>>)>>

\* download_reports is called with the two reports (line 238)
InitTwoReports ==
    /\ TARGET_YEAR = IntValue(2024)
    /\ REPORT_TYPES = [t \in {"annual", "half_year", "year_end"} |->
                           t \in {"annual", "half_year"}]
    /\ ShippedLists
    /\ page = TwoReportsPage
    /\ all_reports = parse_reports_page(page)
    /\ reports_to_download = filter_reports(all_reports, TARGET_YEAR, REPORT_TYPES)
    /\ dl_i = 1 /\ initial_files = {} /\ downloaded_file = <<>>
    /\ dir_files = {}
    /\ downloaded = <<>> /\ dl_log = <<>> /\ dpc = "loop"
    /\ ParserIdle /\ OrchestratorIdle /\ OutputEmpty /\ MainIdle /\ CleanNumberIdle /\ WaitIdle

NextTwoReports ==
    \/ DriverGet
    \/ BrowserStarts
    \/ BrowserWrites
    \/ BrowserFinishes
    \/ EarlierWrites
    \/ EarlierFinishes
    \/ WaitLoopTest
    \/ WaitList
    \/ WaitSize1
    \/ WaitSize2
    \/ RenameDownloaded
    \/ DownloadsReturn

SpecTwoReports == InitTwoReports /\ [][NextTwoReports]_vars

-----------------------------------------------------------------------------
(* ap2_downloader.py : main, from setup_driver to the end of the finally
   clause *)

\* the exceptions driver.close(), driver.quit() and process.kill() raise
ShutdownErrors == {"WebDriverException", "OSError"}

\* except Exception (lines 263, 271)
CatchesException(e) == e \in {"Exception", "WebDriverException", "OSError"}

\* uc.Chrome(options=options) (line 35): the browser starts, or the call
\* raises
ChromeCreated ==
    /\ dpc = "setup"
    /\ \/ chrome' = "running" /\ dpc' = "implicitly_wait"
       \/ dpc' = "raised" /\ UNCHANGED chrome
    /\ UNCHANGED <<driver, try_outcome, pending, spc, shutdown>>
    /\ UNCHANGED <<page, all_reports, reports_to_download, dl_i, initial_files,
                   downloaded_file, dir_files, downloaded, dl_log>>
    /\ UNCHANGED <<cfgVars, folderVars, fnVars, waitVars, outVars, parserVars, orchVars>>

\* driver.implicitly_wait(...) and the return of setup_driver (lines 36-39):
\* main's variable driver is assigned (line 226) when the call returns
ImplicitlyWait ==
    /\ dpc = "implicitly_wait"
    /\ \/ driver' = "driver" /\ dpc' = "parse"
       \/ dpc' = "raised" /\ UNCHANGED driver
    /\ UNCHANGED <<chrome, try_outcome, pending, spc, shutdown>>
    /\ UNCHANGED <<page, all_reports, reports_to_download, dl_i, initial_files,
                   downloaded_file, dir_files, downloaded, dl_log>>
    /\ UNCHANGED <<cfgVars, folderVars, fnVars, waitVars, outVars, parserVars, orchVars>>

\* parse_reports_page raises: driver.get(config.BASE_URL) fails (line 74)
ParsePageRaises ==
    /\ dpc = "parse"
    /\ dpc' = "raised"
    /\ UNCHANGED <<page, all_reports, reports_to_download, dl_i, initial_files,
                   downloaded_file, dir_files, downloaded, dl_log>>
    /\ UNCHANGED <<cfgVars, folderVars, mainVars, fnVars, waitVars, outVars, parserVars,
                   orchVars>>

\* the try statement is left: by the return of lines 232-235, at the end of
\* its body (line 244), or by the raise of the except clause (lines 246-250)
LeaveTry ==
    /\ dpc \in {"done", "raised"}
    /\ try_outcome' = IF dpc = "raised" THEN "raise"
                      ELSE IF reports_to_download = <<>> THEN "early return"
                      ELSE "completed"
    /\ pending' = try_outcome'
    /\ dpc' = "finally"
    /\ UNCHANGED <<driver, chrome, spc, shutdown>>
    /\ UNCHANGED <<page, all_reports, reports_to_download, dl_i, initial_files,
                   downloaded_file, dir_files, downloaded, dl_log>>
    /\ UNCHANGED <<cfgVars, folderVars, fnVars, waitVars, outVars, parserVars, orchVars>>

\* if driver: (line 253)
FinallyTest ==
    /\ dpc = "finally" /\ spc = "idle"
    /\ IF driver # "None"
       THEN spc' = "close" /\ UNCHANGED dpc
       ELSE dpc' = "exit" /\ UNCHANGED spc
    /\ UNCHANGED <<driver, chrome, try_outcome, pending, shutdown>>
    /\ UNCHANGED <<page, all_reports, reports_to_download, dl_i, initial_files,
                   downloaded_file, dir_files, downloaded, dl_log>>
    /\ UNCHANGED <<cfgVars, folderVars, fnVars, waitVars, outVars, parserVars, orchVars>>

\* where a call of the try block of lines 255-262 goes on after it raised e:
\* to the except clause, or, the exception pending, to the inner finally
AfterShutdownError(e) == IF CatchesException(e) THEN "except" ELSE "kill"

\* what main goes on to end with after a call of lines 255-262 raised e
PendingAfter(e, before) == IF CatchesException(e) THEN before ELSE e

\* driver.close() (lines 256-257)
DriverClose ==
    /\ dpc = "finally" /\ spc = "close"
    /\ shutdown' = Append(shutdown, "close")
    /\ \/ spc' = "quit" /\ UNCHANGED pending
       \/ \E e \in ShutdownErrors :
             /\ spc' = AfterShutdownError(e)
             /\ pending' = PendingAfter(e, pending)
    /\ UNCHANGED <<driver, chrome, try_outcome>>
    /\ UNCHANGED dlVars
    /\ UNCHANGED <<cfgVars, folderVars, fnVars, waitVars, outVars, parserVars, orchVars>>

\* driver.quit() (lines 258-259)
DriverQuit ==
    /\ dpc = "finally" /\ spc = "quit"
    /\ shutdown' = Append(shutdown, "quit")
    /\ \/ spc' = "sleep" /\ chrome' = "quit" /\ UNCHANGED pending
       \/ \E e \in ShutdownErrors :
             /\ spc' = AfterShutdownError(e)
             /\ pending' = PendingAfter(e, pending)
             /\ UNCHANGED chrome
    /\ UNCHANGED <<driver, try_outcome>>
    /\ UNCHANGED dlVars
    /\ UNCHANGED <<cfgVars, folderVars, fnVars, waitVars, outVars, parserVars, orchVars>>

\* time.sleep(2) and the message that the browser is closed (lines 260-261)
ShutdownSleep ==
    /\ dpc = "finally" /\ spc = "sleep"
    /\ shutdown' = Append(shutdown, "sleep")
    /\ spc' = "kill"
    /\ UNCHANGED <<driver, chrome, try_outcome, pending>>
    /\ UNCHANGED dlVars
    /\ UNCHANGED <<cfgVars, folderVars, fnVars, waitVars, outVars, parserVars, orchVars>>

\* the except clause logs the error of the shutdown (lines 263-264)
ShutdownExcept ==
    /\ dpc = "finally" /\ spc = "except"
    /\ shutdown' = Append(shutdown, "error logged")
    /\ spc' = "kill"
    /\ UNCHANGED <<driver, chrome, try_outcome, pending>>
    /\ UNCHANGED dlVars
    /\ UNCHANGED <<cfgVars, folderVars, fnVars, waitVars, outVars, parserVars, orchVars>>

\* the inner finally (lines 265-272): the service process is killed when
\* there is one; an exception is passed over; the browser, a process of
\* its own, ends with the service or goes on
KillService ==
    /\ dpc = "finally" /\ spc = "kill"
    /\ shutdown' = Append(shutdown, "kill")
    /\ \/ chrome' \in {chrome, "quit"} /\ UNCHANGED pending
       \/ \E e \in ShutdownErrors :
             /\ pending' = PendingAfter(e, pending)
             /\ UNCHANGED chrome
    /\ spc' = "end"
    /\ dpc' = "exit"
    /\ UNCHANGED <<driver, try_outcome>>
    /\ UNCHANGED <<page, all_reports, reports_to_download, dl_i, initial_files,
                   downloaded_file, dir_files, downloaded, dl_log>>
    /\ UNCHANGED <<cfgVars, folderVars, fnVars, waitVars, outVars, parserVars, orchVars>>

\* the pages main is run on: an empty one and one with two reports
MainPages == {<<>>, TwoReportsPage}

\* settings validate_config accepts; int('Latest') raises in filter_reports
MainTargetYears == TargetYears \cup {StrValue(<<"Latest">>)}

InitMain ==
    /\ TARGET_YEAR \in MainTargetYears
    /\ REPORT_TYPES \in ReportTypeSettings
    /\ ShippedLists
    /\ page \in MainPages
    /\ all_reports = <<>> /\ reports_to_download = <<>>
    /\ dl_i = 1 /\ initial_files = {} /\ downloaded_file = <<>>
    /\ dir_files = {} /\ downloaded = <<>> /\ dl_log = <<>> /\ dpc = "setup"
    /\ ParserIdle /\ OrchestratorIdle /\ OutputEmpty /\ MainIdle /\ FunctionsIdle

NextMain ==
    \/ ChromeCreated
    \/ ImplicitlyWait
    \/ ParsePage
    \/ ParsePageRaises
    \/ FilterReports
    \/ DriverGet
    \/ WaitReturns
    \/ WaitTimesOut
    \/ RenameDownloaded
    \/ DownloadsReturn
    \/ LeaveTry
    \/ FinallyTest
    \/ DriverClose
    \/ DriverQuit
    \/ ShutdownSleep
    \/ ShutdownExcept
    \/ KillService

SpecMain == InitMain /\ [][NextMain]_vars

\* main is one thread of calls each of which returns or raises: the waits
\* for the page and for a download end at their timeouts, and the commands
\* to the driver are HTTP requests that end at theirs
SpecMainFair == SpecMain /\ WF_vars(NextMain)

-----------------------------------------------------------------------------
(* The run of the orchestrator *)

InitOrchestrator ==
    /\ TARGET_YEAR = IntValue(2024)
    /\ REPORT_TYPES = DefaultReportTypes
    /\ ShippedLists
    /\ DownloaderIdle /\ ParserIdle /\ OutputEmpty /\ MainIdle /\ FunctionsIdle
    /\ opc = "start" /\ child = "none" /\ cpc = NoChildren /\ success = FALSE
    /\ results = <<>> /\ stdout = <<>> /\ stderr = <<>>
    /\ exit_status = 0 /\ olog = <<>>

NextOrchestrator ==
    \/ StartStep1
    \/ ChildStarts
    \/ LaunchFails
    \/ ChildExits
    \/ RunScriptReturns
    \/ CheckStep1
    \/ CheckStep2
    \/ Interrupted

SpecOrchestrator == InitOrchestrator /\ [][NextOrchestrator]_vars

-----------------------------------------------------------------------------
(* Properties of the downloader *)

Range(q) == {q[i] : i \in 1..Len(q)}

\* q holds exactly the elements of a at the positions in want, in a's order
PicksInOrder(q, a, want) ==
    \E f \in [1..Len(q) -> 1..Len(a)] :
        /\ \A i \in 1..Len(q) : q[i] = a[f[i]]
        /\ \A i \in 1..Len(q) : \A k \in 1..Len(q) : i < k => f[i] < f[k]
        /\ {f[i] : i \in 1..Len(q)} = want

Filtered == dpc \in {"loop", "wait", "rename", "done"}

\* the year the setting asks for: the year itself, or the page's latest year
WantedYear ==
    IF TARGET_YEAR.kind = "int" THEN TARGET_YEAR.n
    ELSE IF all_reports = <<>> THEN 0
    ELSE CHOOSE y \in {r.year : r \in Range(all_reports)} :
             \A r \in Range(all_reports) : r.year <= y

\* C4: the reports queued for download are exactly the reports of the target
\* year whose type is enabled in REPORT_TYPES (a type that is no key of
\* REPORT_TYPES counts as disabled), in the order of the input; with
\* TARGET_YEAR = 2024 and only 'annual' enabled these are the annual reports
\* of 2024.
C4_FilterQueuesTargetYearEnabledTypes ==
    Filtered =>
        /\ PicksInOrder(reports_to_download, all_reports,
               {j \in 1..Len(all_reports) :
                    /\ all_reports[j].year = WantedYear
                    /\ all_reports[j].type \in DOMAIN REPORT_TYPES
                    /\ REPORT_TYPES[all_reports[j].type]})
        /\ (TARGET_YEAR = IntValue(2024) /\ REPORT_TYPES = DefaultReportTypes) =>
               Range(reports_to_download) =
                   {r \in Range(all_reports) : r.year = 2024 /\ r.type = "annual"}

\* C4 witness: with the shipped settings one report of the page is queued and
\* another one is left out
C4_Witness ==
    /\ Filtered
    /\ TARGET_YEAR = IntValue(2024) /\ REPORT_TYPES = DefaultReportTypes
    /\ Len(reports_to_download) = 1
    /\ \E r \in Range(all_reports) : r.year = 2024 /\ r.type = "half_year"

\* the index of the first report of the page with the URL u
FirstWithUrl(reports, u) ==
    CHOOSE i \in 1..Len(reports) :
        /\ reports[i].url = u
        /\ \A k \in 1..(i - 1) : reports[k].url # u

\* C5: the reports returned by parse_reports_page have pairwise different
\* URLs, every URL found on the page is the URL of one of them, each is the
\* first report of the page with its URL, and they come in the page order of
\* these first reports.
C5_ReportsDeduplicatedByUrl ==
    dpc # "parse" =>
        LET found == PageReports(page)
        IN  /\ \A i \in 1..Len(all_reports) : \A k \in 1..Len(all_reports) :
                   all_reports[i].url = all_reports[k].url => i = k
            /\ {r.url : r \in Range(found)} = {r.url : r \in Range(all_reports)}
            /\ PicksInOrder(all_reports, found,
                   {FirstWithUrl(found, u) : u \in {r.url : r \in Range(found)}})

\* C5 witness: the page repeats a URL after another report, and two reports
\* are returned
C5_Witness ==
    /\ dpc # "parse"
    /\ Len(all_reports) = 2
    /\ Len(PageReports(page)) = 3

Attempted(i) == \E k \in 1..Len(dl_log) : dl_log[k].ev = "attempt" /\ dl_log[k].i = i
Failed(i) == \E k \in 1..Len(dl_log) : dl_log[k].ev = "failed" /\ dl_log[k].i = i
TimedOut(i) == \E k \in 1..Len(dl_log) : dl_log[k] = LogEvent("failed", i, "timeout")

\* C10: when download_reports has returned, every queued report was
\* attempted, also those after a report whose wait timed out, and the list
\* returned holds the new paths of exactly the reports that did not fail, in
\* queue order; a report whose wait timed out is not among them.
C10_TimeoutSkipsOnlyThatReport ==
    (dpc = "done" /\ reports_to_download # <<>>) =>
        LET n == Len(reports_to_download)
            succeeded == SelectSeq([i \in 1..n |-> i], LAMBDA i : ~Failed(i))
        IN  /\ \A i \in 1..n : Attempted(i)
            /\ downloaded = [k \in 1..Len(succeeded) |->
                                 NewName(reports_to_download[succeeded[k]])]

\* C10 witness: the first report's wait timed out and the second report was
\* downloaded
C10_Witness ==
    /\ dpc = "done"
    /\ Len(reports_to_download) = 2
    /\ TimedOut(1) /\ ~Failed(2)
    /\ Len(downloaded) = 1

-----------------------------------------------------------------------------
(* Properties of the parser *)

\* the year of the reports the filter queued
FilterYear == target_year(TARGET_YEAR, all_reports).n

\* the data rows of the sheet and the year each is labelled with
SheetRows == 1..Len(sheet.rows)
RowYear(r) == sheet.rows[r][1]

C1_WitnessUnknownKey ==
    /\ sheet # NoSheet
    /\ \E i \in 1..Len(all_data) : DictHas(all_data[i][2], <<"page">>)

KeptIn(d, e) ==
    \A i \in 1..Len(d) : DictHas(e, d[i][1]) /\ DictGet(e, d[i][1]) = d[i][2]

\* C7: a value recorded for a (year, field) is never changed or removed by a
\* later section or a later PDF of the run
C7_ResolvedFieldNeverOverwritten ==
    [][/\ \A i \in 1..Len(all_data) :
             /\ DictHas(all_data', all_data[i][1])
             /\ KeptIn(all_data[i][2], DictGet(all_data', all_data[i][1]))
       /\ ppc \in {"merge", "section", "call", "parse"} =>
             /\ KeptIn(current_year_data, current_year_data')
             /\ KeptIn(previous_year_data, previous_year_data')]_vars

\* the steps in which a section or an attempt of it fails
SectionFails ==
    \/ ppc = "section" /\ ppc' # "call"
    \/ ppc = "call" /\ ppc' # "parse"
    \/ ppc = "parse" /\ ParseResponse(response).kind # "object"

\* C8: an exception in a section or in an attempt of it never ends the run:
\* the step keeps the values extracted so far and goes on with the same
\* section, the next section or the end of the sections; every section of a
\* PDF is passed before its data is returned, and every PDF before the run
\* ends
C8_ExceptionsAreCaught ==
    /\ [](ppc # "raised")
    /\ [](ppc = "return" => sec_i = Len(sections) + 1)
    /\ [](ppc = "done" /\ dir_files # {} => pdf_i = Len(pdf_files) + 1)
    /\ [][SectionFails =>
             /\ ppc' \in {"call", "merge", "section", "return"}
             /\ UNCHANGED <<current_year_data, previous_year_data, all_data,
                            pdf_i, pdf_files>>
             /\ sec_i' \in {sec_i, sec_i + 1}]_vars

\* a section of the second PDF has just raised, with values of this PDF and
\* of the first one extracted
C8_Witness ==
    /\ ppc = "section" /\ llm_calls = 0 /\ sec_i > 1
    /\ current_year_data # <<>>
    /\ pdf_i = 2 /\ all_data # <<>>

\* C9: the LLM is called at most max_retries times for a section; an answer
\* that parses to an object ends the loop with its cleaned result; a failed
\* attempt is followed by the next call, and the failure of attempt
\* max_retries by the empty mapping
C9_RetriesAreBounded ==
    /\ [](llm_calls <= max_retries)
    /\ [](ppc = "call" => llm_calls = attempt /\ attempt < max_retries)
    /\ [](ppc = "parse" => llm_calls = attempt + 1)
    /\ [][/\ ppc = "parse" /\ ParseResponse(response).kind = "object" =>
                /\ ppc' = "merge"
                /\ section_data' = cleaned_result(ParseResponse(response).dict)
          /\ ppc \in {"call", "parse"} /\ SectionFails =>
                IF llm_calls' = max_retries
                THEN ppc' = "merge" /\ section_data' = <<>>
                ELSE ppc' = "call" /\ llm_calls' < max_retries]_vars

\* after two failed attempts the third answer has arrived and is JSON
\* without an object
C9_Witness ==
    /\ ppc = "parse" /\ attempt = max_retries - 1 /\ llm_calls = max_retries
    /\ ParseResponse(response).kind = "other"

-----------------------------------------------------------------------------
(* Properties of the sheet's cells, for both parsers *)

\* the keys under which an extraction records the value of a header's field:
\* the header itself (perfect_llm_parser.py), or the header without 'AP2.',
\* alone or with the year behind it, and the three names of
\* extract_fund_capital_flows_results (pdf_parser_enhanced.py)
KeysOfField(header, year) ==
    <<header, ExtractorKey(header) \o <<"_">> \o Str(year), ExtractorKey(header)>>
        \o (IF header = OUTPUT_HEADERS[2]
            THEN <<<<"FUNDCAPITALCARRIEDFORWARD", "LEVEL">>>>
            ELSE IF header = OUTPUT_HEADERS[3]
            THEN <<<<"NETOUTFLOWSTOTHENATIONALPENSIONSYSTEM">>>>
            ELSE IF header = OUTPUT_HEADERS[4]
            THEN <<<<"TOTAL">>>>
            ELSE <<>>)

\* the value extracted for a (year, field), Null when there is none
Extracted(year, header) ==
    LET data == DictGet(all_data, year)
        keys == SelectSeq(KeysOfField(header, year), LAMBDA k : DictHas(data, k))
    IN  IF keys = <<>> THEN Null ELSE DictGet(data, keys[1])

\* C2: in a written sheet the cell of every year row and every field
\* identifier is null when no extraction produced a value for that (year,
\* field), and else holds the value extracted for it
C2_CellsHoldExtractedValues ==
    sheet # NoSheet =>
        \A r \in SheetRows : \A c \in 2..Len(OUTPUT_HEADERS) :
            sheet.rows[r][c] = Extracted(RowYear(r).m, OUTPUT_HEADERS[c])

-----------------------------------------------------------------------------
(* Properties of the orchestrator *)

\* run_script has been called for a script
Started(script) ==
    \E i \in 1..Len(olog) : olog[i] = LogLine("info", "Starting", script, 0)

\* a child could not be launched
LaunchFailed(script) ==
    \E i \in 1..Len(olog) : olog[i] = LogLine("error", "Error running", script, 0)

\* a child returned a non-zero exit code
ExitedNonZero(script) ==
    \E i \in 1..Len(results) :
        results[i].script = script /\ results[i].returncode # 0

StepFailed(script) == LaunchFailed(script) \/ ExitedNonZero(script)

SuccessLogged ==
    \E i \in 1..Len(olog) :
        olog[i] = LogLine("info", "ANNUAL PIPELINE COMPLETED SUCCESSFULLY", "", 0)

\* C6: the parser is started only after the downloader returned exit code 0;
\* the step after run_script reported a failure exits with status 1 and
\* starts nothing; an orchestrator that has ended after a failed step has
\* status 1; the success message is logged only when the two children
\* returned exit code 0
C6_FailedStepAbortsPipeline ==
    /\ [](Started(ParserScript) =>
             /\ ~StepFailed(DownloaderScript)
             /\ Len(results) >= 1
             /\ results[1] = [script |-> DownloaderScript,
                              ending |-> results[1].ending, returncode |-> 0])
    /\ [](opc = "exited" /\ (StepFailed(DownloaderScript) \/ StepFailed(ParserScript))
             => exit_status = 1)
    /\ [](SuccessLogged =>
             /\ Len(results) = 2
             /\ results[1].script = DownloaderScript /\ results[1].returncode = 0
             /\ results[2].script = ParserScript /\ results[2].returncode = 0)
    /\ [][(opc = "check1" \/ opc = "check2") /\ StepFailed(child) =>
             /\ (~SuccessLogged)'
             /\ UNCHANGED <<child, cpc, results>>
             /\ opc' = "exited" /\ exit_status' = 1]_vars

\* the downloader was killed by a signal and the orchestrator has exited with
\* status 1 without starting the parser
C6_Witness ==
    /\ opc = "exited" /\ exit_status = 1
    /\ Len(results) = 1 /\ results[1].returncode < 0
    /\ ~Started(ParserScript)

-----------------------------------------------------------------------------
(* Properties of the output folder *)

\* the files of the output folder other than the 'latest' file
Timestamped(files) == (DOMAIN files) \ {LatestPath}

\* a create_output that completed in this step wrote the sheet to the
\* timestamped file it returns and to the 'latest' file
OutputWritten ==
    /\ output_file' = OutputPath(get_timestamp(now'))
    /\ output_file' \in DOMAIN output_files'
    /\ LatestPath \in DOMAIN output_files'
    /\ output_files'[output_file'] = sheet'
    /\ output_files'[LatestPath] = output_files'[output_file']

\* C11 as stated: every completed create_output writes a timestamped file
\* and the same content to the 'latest' file, so that the 'latest' file
\* equals the timestamped file of the most recent completed run, and every
\* timestamped file that existed before the run is left unchanged
C11_EarlierOutputsUnchanged ==
    [][/\ now' # now =>
            /\ OutputWritten
            /\ \A p \in Timestamped(output_files) :
                  p \in DOMAIN output_files' /\ output_files'[p] = output_files[p]
       /\ now' = now => UNCHANGED <<output_files, output_file>>]_vars

\* C11 as the code has it: the same, but the timestamped files left
\* unchanged are those of another second than the run's; a run whose
\* timestamp (whole seconds) equals that of an earlier run replaces the
\* earlier run's timestamped file
C11_LatestIsLastOutputOtherSecondsKept ==
    [][/\ now' # now =>
            /\ OutputWritten
            /\ \A p \in Timestamped(output_files) \ {output_file'} :
                  p \in DOMAIN output_files' /\ output_files'[p] = output_files[p]
       /\ now' = now => UNCHANGED <<output_files, output_file>>]_vars

\* a later run has completed and the timestamped file of an earlier run,
\* with other content, is still in the folder
C11_Witness ==
    /\ ppc = "done" /\ output_file # <<>>
    /\ output_files[LatestPath] = sheet
    /\ \E p \in Timestamped(output_files) \ {output_file} :
          output_files[p] # output_files[LatestPath]

-----------------------------------------------------------------------------
(* Properties of the rows *)

\* the rows of the sheet that are labelled with the year
RowsOfYear(year) == {r \in SheetRows : RowYear(r) = Num(year, 0)}

\* the fiscal years for which the PDFs of the run gave data
ExtractedYears == {all_data[i][1] : i \in 1..Len(all_data)}

\* C12: in the written sheet every fiscal year for which data was extracted
\* from the PDFs of the run labels exactly one row, every row is labelled
\* with such a year, and no two rows have the same year
C12_OneRowPerFiscalYear ==
    sheet # NoSheet =>
        /\ \A year \in ExtractedYears : Cardinality(RowsOfYear(year)) = 1
        /\ \A r \in SheetRows : \E year \in ExtractedYears : RowYear(r) = Num(year, 0)
        /\ \A r1, r2 \in SheetRows : RowYear(r1) = RowYear(r2) => r1 = r2

\* two PDFs of the same fiscal year were processed and the sheet has the one
\* row of that year, next to the row of the year before it
C12_Witness ==
    /\ ppc = "done" /\ sheet # NoSheet
    /\ Len(pdf_files) = 2
    /\ extract_year_from_filename(pdf_files[1]) = extract_year_from_filename(pdf_files[2])
    /\ Len(sheet.rows) = 2
    /\ RowsOfYear(extract_year_from_filename(pdf_files[1])) # {}

-----------------------------------------------------------------------------
(* Properties of the extraction strategies *)

\* the order of preference: structured table extraction, keyword/regex text
\* scanning, LLM-prompted extraction
Preference == <<"table", "regex", "llm">>

\* C13: the strategies the parser has run on the PDF are the first ones of
\* the order of preference, in that order: a strategy is run only after
\* every strategy before it in the order has been run
C13_StrategiesInOrderOfPreference ==
    /\ Len(strategies) <= Len(Preference)
    /\ \A i \in 1..Len(strategies) : strategies[i] = Preference[i]

-----------------------------------------------------------------------------
(* Properties of clean_number_string *)

\* s without its leading minus sign and its trailing '%'
Unsigned(s) ==
    LET t == IF s # <<>> /\ s[1] = "-" THEN Tail(s) ELSE s
    IN  IF t # <<>> /\ t[Len(t)] = "%" THEN SubSeq(t, 1, Len(t) - 1) ELSE t

\* digit groups separated by single spaces or non-breaking spaces
IsDigitGroups(s) ==
    /\ s # <<>>
    /\ \A i \in 1..Len(s) :
          \/ IsDigit(s[i])
          \/ /\ IsSpace(s[i])
             /\ i > 1 /\ i < Len(s)
             /\ IsDigit(s[i - 1]) /\ IsDigit(s[i + 1])

\* a Swedish formatted number: digit groups with an optional leading minus
\* sign and an optional trailing '%'
IsSwedishNumber(v) == ~v.none /\ IsDigitGroups(Unsigned(v.s))

HasPercent(v) == ~v.none /\ v.s # <<>> /\ v.s[Len(v.s)] = "%"

\* the number a Swedish formatted number stands for
SwedishValue(v) ==
    LET digits == SelectSeq(Unsigned(v.s), IsDigit)
    IN  Num(IF v.s[1] = "-" THEN 0 - DigitsValue(digits) ELSE DigitsValue(digits), 0)

\* C14 as stated: a call with a Swedish formatted number returns the number
\* with that sign and those digits, with or without a trailing '%'; a call
\* with None, the empty string or "-" returns None
C14_SwedishNumbersParsed ==
    fpc = "returned" =>
        /\ IsSwedishNumber(value_str) => number = SwedishValue(value_str)
        /\ value_str \in {NoneArg, StrArg(<<>>), StrArg(<<"-">>)} => number = None

\* C14 as the code has it: the number is returned for a string without '%',
\* and for a string with a trailing '%' when the call has is_percentage set;
\* a string with '%' in a call without is_percentage returns None
C14_SwedishNumbersParsedPercentIfAsked ==
    fpc = "returned" =>
        /\ IsSwedishNumber(value_str) /\ (HasPercent(value_str) => is_percentage)
              => number = SwedishValue(value_str)
        /\ IsSwedishNumber(value_str) /\ HasPercent(value_str) /\ ~is_percentage
              => number = None
        /\ value_str \in {NoneArg, StrArg(<<>>), StrArg(<<"-">>)} => number = None

\* a negative number of two digit groups with a non-breaking space and a
\* '%' was cleaned in a call with is_percentage
C14_Witness ==
    /\ fpc = "returned"
    /\ value_str = StrArg(<<"-", "2", "nbsp", "0", "%">>)
    /\ is_percentage
    /\ number = Num(0 - 20, 0)

-----------------------------------------------------------------------------
(* Properties of the two header rows *)

\* the sheets of the files in the output folder
WrittenSheets == {output_files[p] : p \in DOMAIN output_files}

\* header row 2 holds the subheaders, column by column
SubheadersAligned(sh) ==
    /\ Len(sh.subheader) = Len(config_subheaders)
    /\ \A i \in 1..Len(config_subheaders) : sh.subheader[i] = config_subheaders[i]

\* no parser run gets past the import of config while the two lists differ
\* in length: validate_config has raised ValueError
MismatchRaises ==
    Len(config_headers) # Len(config_subheaders) => ppc \in {"start", "raised"}

\* C15 as stated: in every written spreadsheet header row 1 holds
\* OUTPUT_HEADERS[i] and header row 2 holds OUTPUT_SUBHEADERS[i] for every
\* column i, and validate_config raises at the import of config whenever
\* the two lists differ in length
C15_HeaderRowsAreTheLists ==
    /\ \A sh \in WrittenSheets :
          /\ Len(sh.header) = Len(config_headers)
          /\ \A i \in 1..Len(config_headers) : sh.header[i] = config_headers[i]
          /\ SubheadersAligned(sh)
    /\ MismatchRaises

\* C15 as the code has it: the same for every column but the first; the
\* first cell of header row 1 holds OUTPUT_HEADERS[0] in a sheet written by
\* pdf_parser_new.py and is empty in a sheet written by
\* pdf_parser_enhanced.py
C15_HeaderRowsAreTheListsButFirstCell ==
    /\ \A sh \in WrittenSheets :
          /\ Len(sh.header) = Len(config_headers)
          /\ \A i \in 2..Len(config_headers) : sh.header[i] = config_headers[i]
          /\ sh.header[1] \in {config_headers[1], <<>>}
          /\ SubheadersAligned(sh)
    /\ MismatchRaises

\* the folder holds a sheet of each parser: one with the first header in its
\* first cell and one with an empty first cell
C15_Witness ==
    /\ \E sh \in WrittenSheets : sh.header[1] = <<>> /\ Len(sh.rows) > 0
    /\ \E sh \in WrittenSheets : sh.header[1] = OUTPUT_HEADERS[1] /\ Len(sh.rows) > 0

\* the import of config has raised because a subheader is missing
C15_WitnessMismatch ==
    /\ ppc = "raised"
    /\ Len(config_subheaders) = Len(config_headers) - 1

-----------------------------------------------------------------------------
(* Properties of the child processes *)

\* the process of the script is alive
Running(script) == cpc[script] = "running"

\* C16: at every moment at most one child script is running; the parser is
\* launched only after the downloader has ended; and run_script blocks:
\* when a call of it has returned, no child is running
C16_ChildrenRunOneAfterTheOther ==
    /\ Cardinality({script \in Scripts : Running(script)}) <= 1
    /\ cpc[ParserScript] # "none" => cpc[DownloaderScript] = "exited"
    /\ opc \in {"check1", "check2"} => \A script \in Scripts : ~Running(script)

\* the parser is running, after the downloader has ended with return code 0
C16_Witness ==
    /\ Running(ParserScript)
    /\ cpc[DownloaderScript] = "exited"
    /\ results[1].script = DownloaderScript /\ results[1].returncode = 0

-----------------------------------------------------------------------------
(* Properties of the download directory and of wait_for_download *)

\* the browser is writing a file into the download directory
BrowserWriting == browser.state = "writing"

\* the next step of the downloader lists the directory, measures a file's
\* size, or removes or renames a file
DownloaderAccesses ==
    \/ dpc = "loop" /\ dl_i <= Len(reports_to_download)
    \/ dpc = "wait" /\ wpc \in {"list", "size1", "size2"}
    \/ dpc = "rename"

\* the file was not there before the request, has no suffix of a partial
\* download, and had the same size, not zero, in the two measurements
NewCompleteStable(f) ==
    /\ f \notin initial_files
    /\ ~IsTemporary(f)
    /\ size1 = size2 /\ size2 > 0

C17_WitnessRename ==
    /\ dpc = "rename" /\ browser.state = "done" /\ downloaded_file = browser.name

\* wait_for_download returns only a new, complete and stable file
ReturnsStableFile == wpc = "returned" => NewCompleteStable(downloaded_file)

\* wait_for_download raises TimeoutError only when the time is up
TimeoutErrorAfterTimeout == wpc = "TimeoutError" => elapsed >= WaitTimeout

\* C18: wait_for_download ends in one of two ways only: it returns a file
\* that was not in initial_files, has no suffix of a partial download and
\* had the same size, not zero, in two measurements, or it raises
\* TimeoutError after the timeout
C18_ReturnsStableFileOrTimesOut ==
    /\ wpc \in {"idle", "test", "list", "size1", "size2", "returned", "TimeoutError"}
    /\ ReturnsStableFile
    /\ TimeoutErrorAfterTimeout

\* wait_for_download has ended with the OSError of os.path.getsize
C18_WitnessOSError == wpc = "OSError" /\ elapsed < WaitTimeout

-----------------------------------------------------------------------------
(* Properties of the LLM extractions *)

\* the mapping of the section whose data is about to be merged
ExpectedFields == get_field_mapping(sections[sec_i], year_of_pdf)

\* every key of the section's data is a key of the section's mapping
OnlyMappedKeys ==
    \A i \in 1..Len(section_data) :
        \E k \in 1..Len(ExpectedFields) : ExpectedFields[k] = section_data[i][1]

\* actual_count / expected_count * 100 of lines 474-476 is more than 100
AccuracyAbove100 ==
    /\ ppc = "merge"
    /\ Len(ExpectedFields) > 0
    /\ Len(section_data) * 100 > 100 * Len(ExpectedFields)

\* C19: the data extract_section_with_precision returns for a section has
\* only keys of get_field_mapping(section, year), and so never more entries
\* than the mapping has: the accuracy that is logged is never above 100%
C19_OnlyMappedKeysAccuracyAtMost100 ==
    ppc = "merge" => OnlyMappedKeys /\ ~AccuracyAbove100

\* the entries of the JSON object that are numbers or strings that are
\* numbers, each with its number: what the result of an extraction is to be
RECURSIVE NumericEntries(_)
NumericEntries(items) ==
    IF items = <<>> THEN <<>>
    ELSE LET f == float_val(items[1][2])
             rest == NumericEntries(Tail(items))
         IN  IF items[1][2].t # "null" /\ f.ok /\ f.kind = "finite"
             THEN <<<<items[1][1], f.v>>>> \o rest
             ELSE rest

\* the result has the numeric entries of the answer's object and no others
NumericEntriesKept(content, result) ==
    ParseResponse(content).kind = "object"
        => result = NumericEntries(ParseResponse(content).dict)

\* C20: what an LLM extraction returns for an answer that is a JSON object
\* is the object's numeric entries: entries that are null, empty or no
\* number are absent, every number and every string that is a number is
\* present with its value; for extract_section_with_precision and for
\* extract_annual_data
C20_NumericEntriesKeptOthersAbsent ==
    [][/\ (ppc = "parse" /\ ppc' = "merge")
              => NumericEntriesKept(response, section_data')
       /\ (ppc = "annual" /\ ppc' = "annual returned")
              => NumericEntriesKept(response, section_data')]_vars

\* C20, extract_section_with_precision alone
PrecisionKeepsNumericEntries ==
    [][(ppc = "parse" /\ ppc' = "merge")
           => NumericEntriesKept(response, section_data')]_vars

\* C20, extract_annual_data alone
AnnualKeepsNumericEntries ==
    [][(ppc = "annual" /\ ppc' = "annual returned")
           => NumericEntriesKept(response, section_data')]_vars

\* what is returned holds no entry that the object does not hold as a
\* number or as a string float() reads as a finite number
OnlyNumericEntries ==
    [][(ppc' \in {"merge", "annual returned"} /\ ppc \in {"parse", "annual"}
            /\ ParseResponse(response).kind = "object")
           => \A i \in 1..Len(section_data') :
                  \E k \in 1..Len(NumericEntries(ParseResponse(response).dict)) :
                      NumericEntries(ParseResponse(response).dict)[k] = section_data'[i]]_vars

-----------------------------------------------------------------------------
(* Properties of the text that is parsed as JSON *)

\* t is content[i..j]
IsSlice(content, i, j, t) ==
    /\ 1 <= i /\ i <= j /\ j <= Len(content)
    /\ Len(t) = j - i + 1
    /\ \A k \in 1..Len(t) : t[k] = content[i + k - 1]

\* content[i] is the first '{' of content and content[j] its last '}'
FirstAndLastBrace(content, i, j) ==
    /\ i \in 1..Len(content) /\ j \in 1..Len(content)
    /\ content[i] = Brace("{") /\ \A k \in 1..(i - 1) : content[k] # Brace("{")
    /\ content[j] = Brace("}") /\ \A k \in (j + 1)..Len(content) : content[k] # Brace("}")

\* t is what is to be parsed of the cleaned response: from the first '{'
\* through the last '}' when that '}' comes after that '{', all of it
\* otherwise
IsTextToParse(content, t) ==
    IF \E i, j \in 1..Len(content) : FirstAndLastBrace(content, i, j) /\ j > i
    THEN \E i, j \in 1..Len(content) :
             FirstAndLastBrace(content, i, j) /\ IsSlice(content, i, j, t)
    ELSE t = content

\* the step of an extraction from the response has the outcome that parsing
\* t has: the cleaned entries of the object, or a failed attempt
ParsedAs(t) ==
    /\ (ppc = "parse" /\ response # <<>>)
           => IF JsonLoads(t).kind = "object"
              THEN ppc' = "merge" /\ section_data' = cleaned_result(JsonLoads(t).dict)
              ELSE (ppc' = "call" /\ attempt' = attempt + 1)
                       \/ (ppc' = "merge" /\ section_data' = <<>>)
    /\ (ppc = "annual" /\ ppc' = "annual returned")
           => IF JsonLoads(t).kind = "object"
              THEN section_data' = extract_annual_data(TRUE, t)
              ELSE section_data' = <<>>

\* the texts a response of some pieces can be cut to
SlicesOf(content) ==
    {content} \cup {SubSeq(content, i, j) : i, j \in 1..Len(content)}

\* C21: what is parsed of the LLM's response is the text from its first '{'
\* through its last '}' when both are there and the '}' comes later, and the
\* whole cleaned response otherwise; for both extractions
C21_ParsedFromFirstToLastBrace ==
    [][\A t \in SlicesOf(Unfence(response)) :
           IsTextToParse(Unfence(response), t) => ParsedAs(t)]_vars

\* C21: extract_annual_data has returned the entries of an object that
\* came with text before its first '{'
C21_Witness ==
    /\ ppc = "annual returned" /\ section_data # <<>>
    /\ response # <<>> /\ response[1] = Text

\* C21: a response whose last '}' comes before its first '{' has been
\* parsed whole
C21_WitnessWhole ==
    /\ ppc = "annual returned" /\ section_data = <<>>
    /\ Len(response) >= 2
    /\ response[1] = Brace("}") /\ response[Len(response)] = Brace("{")

-----------------------------------------------------------------------------
(* Properties of the result of extract_all_sections *)

\* key is a key of the bonds section that carries the prefix of the year
\* before the report's year
PreviousYearKey(section_name, key) ==
    /\ section_name = "bonds"
    /\ Len(key) >= 5
    /\ Str(year_of_pdf - 1) = SubSeq(key, 1, 4) /\ key[5] = "_"

\* key without its first five characters
WithoutPrefix(key) == [i \in 1..(Len(key) - 5) |-> key[i + 5]]

\* the step that merges a section's data puts each entry under its year
SectionMergedByYear ==
    (ppc = "merge" /\ ppc' # "merge") =>
        /\ \A i \in 1..Len(section_data) :
              LET key == section_data[i][1]
                  value == section_data[i][2]
              IN  IF PreviousYearKey(sections[sec_i], key)
                  THEN /\ DictHas(previous_year_data', WithoutPrefix(key))
                       /\ DictGet(previous_year_data', WithoutPrefix(key)) = value
                  ELSE /\ DictHas(current_year_data', key)
                       /\ DictGet(current_year_data', key) = value
        /\ \A i \in 1..Len(previous_year_data') :
              \/ \E k \in 1..Len(previous_year_data) :
                     previous_year_data[k] = previous_year_data'[i]
              \/ \E k \in 1..Len(section_data) :
                     /\ PreviousYearKey(sections[sec_i], section_data[k][1])
                     /\ previous_year_data'[i]
                            = <<WithoutPrefix(section_data[k][1]), section_data[k][2]>>
        /\ sections[sec_i] # "bonds" => previous_year_data' = previous_year_data

\* the step that ends extract_all_sections gives main the data of the two
\* years, each year only when it has data; into an empty all_data the
\* previous year goes first
ResultByYear ==
    (ppc = "return" /\ ppc' # "return") =>
        /\ \A i \in 1..Len(all_data') :
              \/ all_data'[i][1] \in {year_of_pdf - 1, year_of_pdf}
              \/ DictHas(all_data, all_data'[i][1])
        /\ IF previous_year_data # <<>>
           THEN /\ DictHas(all_data', year_of_pdf - 1)
                /\ DictGet(all_data', year_of_pdf - 1) = previous_year_data
           ELSE DictHas(all_data', year_of_pdf - 1) = DictHas(all_data, year_of_pdf - 1)
        /\ IF current_year_data # <<>>
           THEN /\ DictHas(all_data', year_of_pdf)
                /\ DictGet(all_data', year_of_pdf) = current_year_data
           ELSE DictHas(all_data', year_of_pdf) = DictHas(all_data, year_of_pdf)
        /\ all_data = <<>> =>
              \A i, k \in 1..Len(all_data') : i < k => all_data'[i][1] < all_data'[k][1]

\* C22: extract_all_sections returns the data of the year before the
\* report's year and of the report's year, in this order, each only when it
\* has a value; a bonds key with the prefix of the previous year goes to the
\* previous year without the prefix, every other key to the current year,
\* and no other section adds to the previous year
C22_SectionsResultByYear ==
    [][SectionMergedByYear /\ ResultByYear]_vars

\* C22: the result of a report holds both years, and the current year holds
\* a key with the prefix that a section other than bonds returned
C22_Witness ==
    /\ Len(all_data) = 2
    /\ all_data[1][1] + 1 = all_data[2][1]
    /\ \E i \in 1..Len(all_data[2][2]) :
           StartsWith(all_data[2][2][i][1], YearPrefix(all_data[1][1]))

-----------------------------------------------------------------------------
(* Properties of the target year *)

\* the reports of the page whose type is enabled
EnabledReports ==
    SelectSeq(all_reports, LAMBDA r : ReportTypeEnabled(REPORT_TYPES, r.type))

\* filter_reports has returned
FilterReturned == dpc \in {"done", "loop"}

\* C23: with TARGET_YEAR 'latest' the reports queued are the reports of an
\* enabled type of the newest year that has such a report; the queue is not
\* empty when the page has a report of an enabled type
C23_LatestYearWithEnabledReport ==
    (FilterReturned /\ TARGET_YEAR = StrValue(<<"latest">>) /\ EnabledReports # <<>>)
        => /\ reports_to_download # <<>>
           /\ reports_to_download
                  = SelectSeq(EnabledReports,
                              LAMBDA r : r.year = MaxYear(EnabledReports))

\* with TARGET_YEAR 'latest' the reports queued are the reports of an
\* enabled type of the newest year of the page
LatestYearOfPage ==
    (FilterReturned /\ TARGET_YEAR = StrValue(<<"latest">>) /\ all_reports # <<>>)
        => reports_to_download
               = SelectSeq(EnabledReports, LAMBDA r : r.year = MaxYear(all_reports))

\* C24: a TARGET_YEAR that validate_config accepts never makes
\* filter_reports raise
C24_AcceptedTargetYearNeverRaises ==
    validate_config(config_headers, config_subheaders, TARGET_YEAR, REPORT_TYPES) = "True"
        => dpc # "raised"

\* a TARGET_YEAR that is an int, a str of an int or the str 'latest' never
\* makes filter_reports raise
PlainTargetYearNeverRaises ==
    (TARGET_YEAR.kind = "int" \/ TARGET_YEAR = StrValue(<<"latest">>)
         \/ ParseInt(TARGET_YEAR.s).ok)
        => dpc # "raised"

-----------------------------------------------------------------------------
(* Properties of the success message *)

\* the script has been run and has ended in this way
EndedWith(script, ending) ==
    \E i \in 1..Len(results) :
        results[i].script = script /\ results[i].ending = ending

\* C25: when the orchestrator logs that the pipeline completed and names the
\* latest output file, the parser of this run has written that file and the
\* downloader of this run has queued reports
C25_SuccessMeansOutputWritten ==
    SuccessLogged => /\ EndedWith(ParserScript, "output written")
                     /\ EndedWith(DownloaderScript, "completed")

\* when the orchestrator logs that the pipeline completed, both scripts have
\* been run, one after the other, and each has ended with return code 0
SuccessMeansBothReturnedZero ==
    SuccessLogged => /\ Len(results) = 2
                     /\ results[1].script = DownloaderScript
                     /\ results[2].script = ParserScript
                     /\ results[1].returncode = 0 /\ results[2].returncode = 0

-----------------------------------------------------------------------------
(* Properties of the folder the parser reads *)

\* the parser has chosen a folder
FolderChosen == ppc \in {"folder", "pdf"} /\ latest_folder # <<>>

\* C26: the folder the parser has chosen is the folder of the most recent
\* run of the downloader, never a folder that a run of the parser made
C26_ParserReadsLastDownloadersFolder ==
    FolderChosen => /\ download_folders[latest_folder].by = "downloader"
                    /\ latest_folder \in LatestDownloaderFolders(download_folders)

\* the folder the parser has chosen is one of the latest modification time
ParserReadsLatestModifiedFolder ==
    FolderChosen => \A f \in DOMAIN download_folders :
                        download_folders[f].mtime <= download_folders[latest_folder].mtime

\* the parser has chosen a folder that create_output made
ParserReadsOwnFolder ==
    FolderChosen /\ download_folders[latest_folder].by = "parser"

-----------------------------------------------------------------------------
(* Properties of the file that is renamed *)

\* C27: the file that is about to be renamed to the name of a report is a
\* file the browser has written for the URL of this report, never the file
\* of the report before, whose wait timed out
C27_RenamedFileIsOfOwnUrl ==
    dpc = "rename" => /\ downloaded_file \in PartialNames(browser.final)
                      /\ downloaded_file \notin PartialNames(earlier.final)

\* the file that is about to be renamed is one the browser has written
\* since the report was requested, for this report or for the one before
RenamedFileIsNewDownload ==
    dpc = "rename" => /\ downloaded_file \in PartialNames(browser.final)
                                                \cup PartialNames(earlier.final)
                      /\ downloaded_file \notin initial_files

\* the file of the first report, complete after the timeout of its wait, is
\* about to be renamed to the name of the second report
LateFileRenamed ==
    /\ dpc = "rename" /\ dl_i = 2
    /\ earlier.state = "done" /\ downloaded_file = earlier.name
    /\ \E i \in 1..Len(dl_log) : dl_log[i] = LogEvent("failed", 1, "timeout")

-----------------------------------------------------------------------------
(* Properties of the list download_reports returns *)

\* C28: the paths download_reports returns are distinct, one for each report
\* that was downloaded
C28_DownloadedPathsDistinct ==
    dpc = "done" =>
        \A i, j \in 1..Len(downloaded) : i # j => downloaded[i] # downloaded[j]

\* no two queued reports have the same year and the same type
QueuedPairsDistinct ==
    \A i, j \in 1..Len(reports_to_download) :
        i # j => NewName(reports_to_download[i]) # NewName(reports_to_download[j])

\* the returned paths are names of queued reports, in the order of the
\* queue, and they are distinct when the queued reports differ in year or
\* type
PathsOfQueuedReports ==
    dpc = "done" =>
        /\ Len(downloaded) <= Len(reports_to_download)
        /\ \A i \in 1..Len(downloaded) :
              \E k \in 1..Len(reports_to_download) :
                  downloaded[i] = NewName(reports_to_download[k])
        /\ QueuedPairsDistinct =>
              \A i, j \in 1..Len(downloaded) : i # j => downloaded[i] # downloaded[j]

\* two reports of one year and one type were downloaded, one file is left
SamePathTwice ==
    /\ dpc = "done"
    /\ Len(downloaded) = 2 /\ downloaded[1] = downloaded[2]
    /\ reports_to_download[1].url # reports_to_download[2].url
    /\ Cardinality({f \in dir_files : f = downloaded[1]}) = 1
    /\ initial_files # {}

-----------------------------------------------------------------------------
(* Properties of the end of the downloader's main *)

\* main has ended, with the return or the exception it had when it left the
\* try statement
EndedAsLeft == dpc = "exit" => pending = try_outcome

\* C29: once the browser driver was created, however main leaves its try
\* statement, the shutdown of the browser is run to its end, and main ends as
\* it left the try statement
C29_CreatedDriverIsShutDown ==
    /\ (chrome = "running") ~> (spc = "end")
    /\ [](EndedAsLeft)

\* once setup_driver has returned the driver to main, the shutdown of the
\* browser is run to its end, the kill of the service process attempted, and
\* main ends as it left the try statement
ReturnedDriverIsShutDown ==
    /\ (driver = "driver") ~> (/\ dpc = "exit" /\ spc = "end"
                               /\ shutdown[1] = "close"
                               /\ shutdown[Len(shutdown)] = "kill")
    /\ [](EndedAsLeft)

\* main always comes to its end
MainEnds == <>(dpc = "exit")

\* the shutdown is run only for a driver main holds, and driver.quit() is
\* called unless driver.close() raised
ShutdownCalls ==
    /\ shutdown # <<>> => driver = "driver"
    /\ spc = "end" =>
          shutdown \in { <<"close", "quit", "sleep", "kill">>,
                         <<"close", "quit", "error logged", "kill">>,
                         <<"close", "error logged", "kill">> }

\* main has ended with an exception and has left running the browser that
\* setup_driver started before it raised
BrowserLeftRunning ==
    /\ dpc = "exit" /\ try_outcome = "raise"
    /\ chrome = "running" /\ driver = "None" /\ shutdown = <<>>

\* driver.close() raised after an exception of the run: driver.quit() was
\* not called, and main ends with the exception of the run
QuitSkipped ==
    /\ dpc = "exit" /\ try_outcome = "raise" /\ pending = "raise"
    /\ shutdown = <<"close", "error logged", "kill">>

\* the shutdown after a normal completion and after the early return
ShutDownAfterReturn ==
    /\ dpc = "exit" /\ pending \in {"completed", "early return"}
    /\ chrome = "quit" /\ shutdown = <<"close", "quit", "sleep", "kill">>

=============================================================================
